---- MODULE Spec2Model ----
(***************************************************************************)
(* Model of the Alex backend (2Quip/Alex): the two agent services          *)
(* (AgnoService, DiagnosticsService), their tool lifecycle, the SSE        *)
(* translation of chat_stream and the voice session bridge.                *)
(*                                                                         *)
(* Every Python object (a DuckDuckGoTools, a SQLTools, a SendDocumentTool, *)
(* an Agent) is an identity drawn from the allocation counter nextId; a    *)
(* tool list is a sequence of identities.  A behaviour is about one        *)
(* service instance, an AgnoService or a DiagnosticsService; a call of one *)
(* of its methods is a slot of `calls`.  asyncio scheduling is modelled by *)
(* making every stretch of code between two suspension points (await of    *)
(* the agent, yield of a frame) one atomic action.                         *)
(***************************************************************************)
EXTENDS Integers, Sequences, FiniteSets, TLC

\* ------------------------------------------------------------------ bounds
MaxCalls == 3        \* serialized calls in one behaviour
MaxEvents == 2       \* events the agent runtime yields to serialized calls
MaxConcCalls == 2    \* calls in one behaviour when requests overlap
MaxConcEvents == 1   \* events the agent runtime yields to overlapping calls
MaxArgCalls == 2     \* calls in one behaviour when their arguments vary
MaxArgEvents == 1    \* events the agent runtime yields to such calls
MaxTraceCalls == 1   \* calls and voice turns whose events are recorded
MaxTraceEvents == 3  \* events the agent runtime yields to such a call
MaxTurns == 3        \* turns of the voice session
MaxItems == 2        \* items of the chat context handed to a voice turn
MaxVoiceEvents == 2  \* events the agent's stream yields in a voice turn
MaxPieces == 3       \* pieces of a text handed to _sanitize_for_tts

\* --------------------------------------------------------------- constants
None == 0            \* Python's None for an object reference

\* The calls in progress at one time: a first and, when requests overlap, a
\* second one.
Calls == {1, 2}

\* Where a construction step can throw inside initialize.
FailPoints == {"none", "ddg", "sql", "send", "agent"}

\* Exception messages, str(e).
Msgs == {"boom"}

VARIABLES
    service,         \* what the behaviour is about: an AgnoService ("agno"),
                     \* a DiagnosticsService ("diag") or a voice session
                     \* ("voice")
    overlap,         \* requests may overlap (FALSE: the caller serializes them)
    args,            \* the requests' session_id arguments and the agent's
                     \* answers vary (FALSE: requests without a session_id,
                     \* regular answers)
    trace,           \* the events the agent's stream delivers are recorded
    webhook_url,     \* settings.DOCUMENT_WEBHOOK_URL is set (truthy)
    initialized,     \* self._initialized
    ddg_tools,       \* self.ddg_tools
    agent,           \* self.agent
    extra_tools,     \* DiagnosticsService._extra_tools
    tools,           \* [agent id -> Seq(id)]: Agent.tools of every Agent built
    nextId,          \* last object identity handed out
    calls,           \* [Calls -> call record]: the calls in progress
    ended,           \* the record of the call that ended in the last step
    nCalls,          \* calls started so far
    bound_log,       \* the SQL tool bound at each agent invocation so far
    nEvents,         \* events yielded by the agent runtime so far
    voice,           \* the voice session (livekit_agent.voice_agent)
    send,            \* the SendDocumentTool and its send_document call
    tts              \* a text and what _sanitize_for_tts makes of it

vars == <<service, overlap, args, trace, webhook_url, initialized, ddg_tools,
          agent, extra_tools, tools, nextId, calls, ended, nCalls, bound_log,
          nEvents, voice, send, tts>>

config == <<service, overlap, args, trace, webhook_url>>

svcVars == <<initialized, ddg_tools, agent, extra_tools, tools, nextId>>

\* ----------------------------------------------------------- Python values
\* An Optional[str] argument: None, or a string.
Nothing == [some |-> FALSE, str |-> ""]

Some(s) == [some |-> TRUE, str |-> s]

\* A Python value: its type t, and its text s (a str), its entries l (a
\* list of strings, a DiagnosticsOutput's diagnostics), or its value under
\* the key "diagnostics" d (a dict: <<>> when the key is absent).
Py(t, s, l, d) == [t |-> t, s |-> s, l |-> l, d |-> d]

PyNone == Py("None", "", <<>>, <<>>)

PyStr(s) == Py("str", s, <<>>, <<>>)

PyList(l) == Py("list", "", l, <<>>)

\* A dict without the key "diagnostics".
PyDict == Py("dict", "", <<>>, <<>>)

\* A dict {"diagnostics": v}.
PyDictWith(v) == Py("dict", "", <<>>, <<v>>)

\* bool(v)
Truthy(v) ==
    CASE v.t = "None" -> FALSE
      [] v.t = "str" -> v.s # ""
      [] v.t = "list" -> v.l # <<>>
      [] v.t = "dict" -> v.d # <<>>
      [] OTHER -> TRUE

\* str(uuid.uuid4()): 36 characters; the n-th call of the behaviour draws
\* the n-th identifier.
uuid4(n) == "00000000-0000-4000-8000-00000000000" \o ToString(n)

\* if not session_id: session_id = str(uuid.uuid4())
DefaultSessionId(given, n) ==
    IF ~given.some \/ given.str = "" THEN uuid4(n) ELSE given.str

\* The session_id arguments of a request.
AllSessionIds == {Nothing, Some(""), Some("s-1")}

SessionIds == IF args THEN AllSessionIds ELSE {Nothing}

\* The listing_id arguments of a diagnostics request.
AllListingIds == {"L-1", "L-2"}

ListingIds == IF args THEN AllListingIds ELSE {"L-1"}

\* No dict returned.
NoResult ==
    [response |-> PyNone, diagnostics |-> PyNone, listing_id |-> "",
     session_id |-> ""]

\* No HTTP response.
NoHttp == [status |-> 0, detail |-> "", body |-> NoResult]

\* ------------------------------------------------------------ call records
\* kind: the method called; pc: where the call is ("new", "running": awaiting
\* arun, "yielded": suspended at a yield, "awaiting": awaiting the stream's
\* next event, "terminal": suspended at the yield of done or of the except
\* branch's error frame, "done"); outcome: "returned" | "raised" | "closed";
\* tried: initialize entered its try block; made: the objects the call
\* constructed; fresh: the SQLTools of its refresh; run_agent, bound: the
\* Agent it invoked and that Agent's tool list at the invocation; seen: the
\* tool list the run last resolved a tool against; frames: the SSE frames
\* yielded; raised_at: the frames yielded before the stream raised; given:
\* the session_id argument; session_id: the local session_id after the
\* default; listing_id: the listing_id argument; invocations: the calls of
\* self.agent.arun; agent_sid: the session_id passed to arun; answer: <<the
\* RunOutput arun returned>>; result: the dict returned; events: the events
\* the agent's stream delivered (where they are recorded); http: the
\* response of the HTTP handler that made the call.
NewCall ==
    [kind |-> "none", pc |-> "new", outcome |-> "none", error |-> "",
     tried |-> 0, made |-> <<>>, fresh |-> None, run_agent |-> None,
     bound |-> <<>>, seen |-> <<>>, frames |-> <<>>, raised_at |-> 0,
     given |-> Nothing, session_id |-> "", listing_id |-> "",
     invocations |-> 0, agent_sid |-> "", answer |-> <<>>,
     result |-> NoResult, events |-> <<>>, http |-> NoHttp]

Obj(k, id) == [k |-> k, id |-> id]

\* The identities of kind k among the objects a construction log lists.
RECURSIVE IdsOf(_, _)
IdsOf(log, k) ==
    IF log = <<>> THEN <<>>
    ELSE (IF Head(log).k = k THEN <<Head(log).id>> ELSE <<>>)
         \o IdsOf(Tail(log), k)

\* ------------------------------------------------------- tool construction
\* tools = [self.ddg_tools, sql_tools] + self._extra_tools; AgnoService has
\* no _extra_tools: its list is [self.ddg_tools, sql_tools].
ToolList(ddg, sql, extra) ==
    <<ddg, sql>> \o (IF service = "diag" THEN extra ELSE <<>>)

\* DiagnosticsService.initialize builds a SendDocumentTool when the webhook
\* URL is configured.
HasSend == service = "diag" /\ webhook_url

\* The construction steps of initialize.
Steps ==
    IF HasSend THEN {"ddg", "sql", "send", "agent"}
    ELSE {"ddg", "sql", "agent"}

\* What a method that changes nothing leaves behind.
Same ==
    [raised |-> FALSE, tried |-> 0, made |-> <<>>,
     initialized |-> initialized, ddg_tools |-> ddg_tools, agent |-> agent,
     extra_tools |-> extra_tools, tools |-> tools, nextId |-> nextId]

\* The try block of initialize(), where failAt names the construction step
\* that throws ("none": no step throws).  The value is the state the block
\* leaves behind and what it did: raised, tried (the times the block was
\* entered), made (the objects it constructed, in order).  The except branch
\* logs and re-raises; the flag is set only after the Agent is built.
construct(failAt) ==
    LET ddgOk   == failAt # "ddg"
        ddgId   == nextId + 1
        sqlOk   == ddgOk /\ failAt # "sql"
        sqlId   == nextId + 2
        sendOk  == sqlOk /\ ~(HasSend /\ failAt = "send")
        sendId  == nextId + 3
        agOk    == sendOk /\ failAt # "agent"
        agId    == IF HasSend THEN nextId + 4 ELSE nextId + 3
        extra   == IF sendOk /\ HasSend
                   THEN Append(extra_tools, sendId)
                   ELSE extra_tools
        made    == (IF ddgOk THEN <<Obj("ddg", ddgId)>> ELSE <<>>)
                   \o (IF sqlOk THEN <<Obj("sql", sqlId)>> ELSE <<>>)
                   \o (IF sendOk /\ HasSend THEN <<Obj("send", sendId)>>
                       ELSE <<>>)
                   \o (IF agOk THEN <<Obj("agent", agId)>> ELSE <<>>)
    IN  [raised      |-> ~agOk,
         tried       |-> 1,
         made        |-> made,
         initialized |-> agOk,
         ddg_tools   |-> IF ddgOk THEN ddgId ELSE ddg_tools,
         agent       |-> IF agOk THEN agId ELSE agent,
         extra_tools |-> extra,
         tools       |-> IF agOk
                         THEN (agId :> ToolList(ddgId, sqlId, extra)) @@ tools
                         ELSE tools,
         nextId      |-> nextId + Len(made)]

\* initialize() with the early return on the flag removed.
initialize_unguarded(failAt) == construct(failAt)

\* initialize() setting the flag whatever the try block did.
initialize_flagged(failAt) ==
    IF initialized THEN Same
    ELSE [construct(failAt) EXCEPT !.initialized = TRUE]

\* initialize(): `if self._initialized: return`, then the try block.
initialize(failAt) ==
    IF initialized THEN Same ELSE construct(failAt)

\* ensure_initialized() of a task that tested the flag before another task
\* set it: the construction is entered whatever the flag says now.
ensure_initialized_late(failAt) == construct(failAt)

\* ensure_initialized(): initialize() only when the flag is not set.
ensure_initialized(failAt) ==
    IF ~initialized THEN initialize(failAt) ELSE Same

\* The service state a method leaves behind becomes the state.
Commit(r) ==
    /\ initialized' = r.initialized
    /\ ddg_tools' = r.ddg_tools
    /\ agent' = r.agent
    /\ extra_tools' = r.extra_tools
    /\ tools' = r.tools
    /\ nextId' = r.nextId

\* A refresh that builds no SQLTools and leaves the agent's list as it is.
refresh_tools_stale(r) == r

\* A refresh that builds the SQLTools but binds it to the request only: the
\* list of the shared Agent object is not replaced.
refresh_tools_private(r) ==
    [r EXCEPT !.nextId = r.nextId + 1,
              !.made = Append(r.made, Obj("sql", r.nextId + 1))]

\* fresh_sql_tools = self._create_sql_tools()
\* self.agent.tools = [self.ddg_tools, fresh_sql_tools] (+ self._extra_tools)
\* applied to the state r that ensure_initialized left.
refresh_tools(r) ==
    LET fresh == r.nextId + 1
    IN  [r EXCEPT !.tools = [r.tools EXCEPT ![r.agent] =
                                ToolList(r.ddg_tools, fresh, r.extra_tools)],
                  !.nextId = fresh,
                  !.made = Append(r.made, Obj("sql", fresh))]

\* ------------------------------------------------------------------ events
\* The agent runtime's run events, one per branch of chat_stream's dispatch
\* (name: tool_name, val: content / error / tool result).
\* truthy: bool() of the value whose text is val.
EvOf(t, n, v, truthy) == [type |-> t, name |-> n, val |-> v, truthy |-> truthy]

Ev(t, n, v) == EvOf(t, n, v, v # "")

Events ==
    { Ev("RunStartedEvent", "", ""),
      Ev("ToolCallStartedEvent", "run_sql_query", "args"),
      Ev("ToolCallCompletedEvent", "run_sql_query", "rows"),
      Ev("RunContentEvent", "", "Hello"),
      Ev("RunContentEvent", "", ""),
      Ev("RunContentCompletedEvent", "", ""),
      Ev("RunCompletedEvent", "", ""),
      Ev("RunErrorEvent", "", "run failed"),
      Ev("RunOutput", "", "Hello"),
      Ev("Unhandled", "", "") }

\* s repeated n times.
RECURSIVE Repeat(_, _)
Repeat(s, n) ==
    IF n = 0 THEN ""
    ELSE IF n % 2 = 0 THEN LET half == Repeat(s, n \div 2) IN half \o half
    ELSE s \o Repeat(s, n - 1)

\* Tool events whose texts are longer than the frames' fields, and tool
\* results that are falsy: None, the empty str, the empty list.
LongEvents ==
    { Ev("ToolCallStartedEvent", "run_sql_query", Repeat("q", 200) \o "r"),
      Ev("ToolCallCompletedEvent", "run_sql_query", Repeat("v", 500) \o "w"),
      EvOf("ToolCallCompletedEvent", "run_sql_query", "None", FALSE),
      EvOf("ToolCallCompletedEvent", "run_sql_query", "[]", FALSE),
      Ev("ToolCallCompletedEvent", "run_sql_query", "") }

\* s[:n]
Slice(s, n) == IF Len(s) <= n THEN s ELSE SubSeq(s, 1, n)

\* A preview that is the whole text of the result, whatever it is.
result_preview_whole(ev) == ev.val

\* str(chunk.tool.result)[:500] if chunk.tool.result else ""
result_preview(ev) == IF ev.truthy THEN Slice(ev.val, 500) ELSE ""

\* An SSE frame: data: {"type": ..., ...}
Frame(t, n, v) == [type |-> t, tool |-> n, val |-> v]

SessionFrame(sid) == Frame("session", "", sid)

DoneFrame == Frame("done", "", "execution_time")

ErrorFrame(msg) == Frame("error", "", msg)

\* A dispatch that surfaces every event as a content frame.
FramesFor_all(ev) == <<Frame("content", "", ev.val)>>

\* The frames the body of chat_stream's `async for` yields for one event.
FramesFor(ev) ==
    CASE ev.type = "RunStartedEvent" -> <<>>
      [] ev.type = "ToolCallStartedEvent" ->
            <<Frame("tool_start", ev.name, Slice(ev.val, 200))>>
      [] ev.type = "ToolCallCompletedEvent" ->
            <<Frame("tool_complete", ev.name, result_preview(ev))>>
      [] ev.type = "RunContentEvent" ->
            IF ev.val # "" THEN <<Frame("content", "", ev.val)>> ELSE <<>>
      [] ev.type = "RunContentCompletedEvent" -> <<>>
      [] ev.type = "RunCompletedEvent" -> <<>>
      [] ev.type = "RunErrorEvent" -> <<ErrorFrame(ev.val)>>
      [] ev.type = "RunOutput" -> <<>>
      [] OTHER -> <<>>

\* ----------------------------------------------------------------- results
\* DiagnosticsOutput.diagnostics: Field(..., max_length=5)
max_length == 5

\* n diagnoses.
Entries(n) == [i \in 1..n |-> "d" \o ToString(i)]

\* A validated DiagnosticsOutput instance.
DiagnosticsOutput(l) == Py("DiagnosticsOutput", "", l, <<>>)

\* A dump that loses the entries.
model_dump_empty(v) == PyDictWith(PyList(<<>>))

\* DiagnosticsOutput.model_dump()
model_dump(v) == PyDictWith(PyList(v.l))

\* json.loads(v): ok and the value, or not ok when it raises (a TypeError
\* for a value that is no text, a JSONDecodeError for a text that is no
\* JSON document).
json_loads(v) ==
    LET Ok(x) == [ok |-> TRUE, value |-> x]
    IN  IF v.t # "str" THEN [ok |-> FALSE, value |-> PyNone]
        ELSE CASE v.s = "null" -> Ok(PyNone)
               [] v.s = "\"d1\"" -> Ok(PyStr("d1"))
               [] v.s = "[\"d1\"]" -> Ok(PyList(Entries(1)))
               [] v.s = "{}" -> Ok(PyDict)
               [] v.s = "{\"diagnostics\": []}" ->
                      Ok(PyDictWith(PyList(<<>>)))
               [] v.s = "{\"diagnostics\": [\"d1\", \"d2\"]}" ->
                      Ok(PyDictWith(PyList(Entries(2))))
               [] v.s = "{\"diagnostics\": [\"d1\", \"d2\", \"d3\", \"d4\", \"d5\", \"d6\"]}" ->
                      Ok(PyDictWith(PyList(Entries(6))))
               [] v.s = "{\"diagnostics\": \"d1\"}" ->
                      Ok(PyDictWith(PyStr("d1")))
               [] OTHER -> [ok |-> FALSE, value |-> PyNone]

\* The texts an agent can answer with.
Texts ==
    { "", "Hello", "null", "\"d1\"", "[\"d1\"]", "{}",
      "{\"diagnostics\": []}",
      "{\"diagnostics\": [\"d1\", \"d2\"]}",
      "{\"diagnostics\": [\"d1\", \"d2\", \"d3\", \"d4\", \"d5\", \"d6\"]}",
      "{\"diagnostics\": \"d1\"}" }

\* A RunOutput: has: it has the attribute content.
Response(has, content) == [has |-> has, content |-> content]

\* The responses the agent of a method can return: the chat agent answers
\* with a text or nothing, the diagnostics agent (output_schema) with a
\* DiagnosticsOutput of at most max_length entries, a text, a dict or
\* nothing.  Where the arguments do not vary the agent gives its regular
\* answer.
AllResponses(kind) ==
    IF kind = "chat"
    THEN {Response(TRUE, v) : v \in {PyNone, PyStr(""), PyStr("Hello")}}
    ELSE {Response(FALSE, PyNone), Response(TRUE, PyNone),
          Response(TRUE, PyDict)}
         \cup {Response(TRUE, DiagnosticsOutput(Entries(n))) :
                   n \in {0, 2, max_length}}
         \cup {Response(TRUE, DiagnosticsOutput(<<"d2", "d1">>))}
         \cup {Response(TRUE, PyStr(t)) : t \in Texts}

Responses(kind) ==
    IF args THEN AllResponses(kind)
    ELSE IF kind = "chat" THEN {Response(TRUE, PyStr("Hello"))}
    ELSE {Response(TRUE, DiagnosticsOutput(Entries(2)))}

\* What a method made of the response: raised ("" when it returned) and the
\* dict it returned.
Returned(result) == [raised |-> "", result |-> result]

Raised(e) == [raised |-> e, result |-> NoResult]

\* chat returning response.content as it is.
chat_result_raw(resp, sid) ==
    Returned([NoResult EXCEPT !.response = resp.content, !.session_id = sid])

\* chat: response_text = response.content if response.content else ""
chat_result(resp, sid) ==
    Returned([NoResult EXCEPT
                !.response = IF Truthy(resp.content) THEN resp.content
                             ELSE PyStr(""),
                !.session_id = sid])

\* diagnose: diagnostics_data from the content, a parse failure swallowed.
diagnostics_data(resp) ==
    IF resp.has
    THEN IF resp.content.t = "DiagnosticsOutput"
         THEN model_dump(resp.content)
         ELSE IF json_loads(resp.content).ok
              THEN json_loads(resp.content).value
              ELSE PyDictWith(PyList(<<>>))
    ELSE PyDictWith(PyList(<<>>))

\* diagnose: diagnostics_data.get("diagnostics", []) and the dict returned;
\* a diagnostics_data that is no dict has no get: the AttributeError is
\* logged and re-raised by `except Exception`.
diagnose_result(resp, lid, sid) ==
    LET data == diagnostics_data(resp)
    IN  IF data.t # "dict" THEN Raised("AttributeError")
        ELSE Returned([NoResult EXCEPT
                         !.diagnostics = IF data.d # <<>> THEN data.d[1]
                                         ELSE PyList(<<>>),
                         !.listing_id = lid,
                         !.session_id = sid])

\* ChatResponse(response=..., session_id=...) and DiagnosticsResponse(
\* diagnostics=..., ...) validate: response is a str, diagnostics a list
\* of str.
validates(kind, result) ==
    IF kind = "chat" THEN result.response.t = "str"
    ELSE result.diagnostics.t = "list"

\* The POST /chat and POST /diagnostics handlers around the service call
\* that ended as r: the response model built from the result, or
\* HTTPException(status_code=500, detail=str(e)) for any Exception of the
\* try block.
handler(kind, r) ==
    IF r.raised # ""
    THEN [status |-> 500, detail |-> r.raised, body |-> NoResult]
    ELSE IF validates(kind, r.result)
    THEN [status |-> 200, detail |-> "", body |-> r.result]
    ELSE [status |-> 500, detail |-> "ValidationError", body |-> NoResult]

\* The record of a chat or diagnose call that ended, with the response of
\* its handler.
Answered(k) ==
    IF k.kind \in {"chat", "diagnose"}
    THEN [k EXCEPT !.http = handler(k.kind,
                                IF k.outcome = "raised" THEN Raised(k.error)
                                ELSE Returned(k.result))]
    ELSE k

\* ----------------------------------------------------------------- actions
\* No other call is between its start and its end.
Quiet(c) == \A d \in Calls \ {c} : calls[d].pc = "new"

\* The calls and the events of one behaviour.
CallBudget ==
    IF trace THEN MaxTraceCalls
    ELSE IF overlap THEN MaxConcCalls
    ELSE IF args THEN MaxArgCalls ELSE MaxCalls

EventBudget ==
    IF trace THEN MaxTraceEvents
    ELSE IF overlap THEN MaxConcEvents ELSE IF args THEN MaxArgEvents
    ELSE MaxEvents

\* A call takes the first free slot; when the caller serializes the requests
\* a call starts only while no other is in progress.
CanStart(c) ==
    /\ nCalls < CallBudget
    /\ calls[c].pc = "new"
    /\ \A d \in 1..(c - 1) : calls[d].pc # "new"
    /\ overlap \/ Quiet(c)

\* failAt is a step of this service's initialize, and names one only when
\* initialize will run its construction.
CanFail(failAt) ==
    /\ failAt \in Steps \cup {"none"}
    /\ initialized => failAt = "none"

\* The record of a call that ended inside its opening.
Ended(kind, r, msg) ==
    Answered([NewCall EXCEPT
                !.kind = kind, !.pc = "done",
                !.outcome = IF msg = "" THEN "returned" ELSE "raised",
                !.error = msg, !.tried = r.tried, !.made = r.made])

\* await service.initialize()  (lifespan startup)
CallInitialize(c, failAt) ==
    /\ CanStart(c)
    /\ CanFail(failAt)
    /\ LET r == initialize(failAt)
       IN  /\ Commit(r)
           /\ ended' = Ended("initialize", r,
                              IF r.raised THEN failAt ELSE "")
    /\ nCalls' = nCalls + 1
    /\ UNCHANGED <<config, calls, bound_log, nEvents, voice, send, tts>>

\* await service.ensure_initialized()
CallEnsureInitialized(c, failAt) ==
    /\ CanStart(c)
    /\ CanFail(failAt)
    /\ LET r == ensure_initialized(failAt)
       IN  /\ Commit(r)
           /\ ended' = Ended("ensure_initialized", r,
                              IF r.raised THEN failAt ELSE "")
    /\ nCalls' = nCalls + 1
    /\ UNCHANGED <<config, calls, bound_log, nEvents, voice, send, tts>>

\* await service.cleanup()  (lifespan shutdown)
cleanup(c) ==
    /\ CanStart(c)
    /\ initialized' = FALSE
    /\ ended' = [NewCall EXCEPT !.kind = "cleanup", !.pc = "done",
                                 !.outcome = "returned"]
    /\ nCalls' = nCalls + 1
    /\ UNCHANGED <<config, calls, ddg_tools, agent, extra_tools, tools, nextId,
                   bound_log, nEvents, voice, send, tts>>

\* The opening of chat / diagnose / chat_stream up to its first suspension:
\* ensure_initialized, the refresh of the SQL tool and then, for chat and
\* diagnose, the call of self.agent.arun, whose coroutine the same `await`
\* starts; for chat_stream, the yield of the session frame.  sqlFail:
\* SQLTools(db_engine=ENGINE) throws in the refresh; given, lid: the
\* session_id and listing_id arguments.
Open(c, kind, failAt, sqlFail, given, lid) ==
    /\ CanStart(c)
    /\ CanFail(failAt)
    /\ given \in SessionIds
    /\ LET r == ensure_initialized(failAt)
           q == refresh_tools(r)
           sid == DefaultSessionId(given, nCalls + 1)
           k == [NewCall EXCEPT !.kind = kind, !.tried = q.tried,
                                !.made = q.made, !.fresh = q.nextId,
                                !.given = given, !.session_id = sid,
                                !.listing_id = lid]
       IN  IF r.raised \/ sqlFail
           THEN /\ Commit(r)
                /\ bound_log' = bound_log
                /\ calls' = calls
                /\ ended' = Ended(kind, r,
                                   IF r.raised THEN failAt ELSE "refresh")
           ELSE /\ Commit(q)
                /\ bound_log' = IF kind = "chat_stream" THEN bound_log
                                ELSE Append(bound_log, q.tools[q.agent][2])
                /\ ended' = NewCall
                /\ calls' = [calls EXCEPT ![c] =
                       IF kind = "chat_stream"
                       THEN [k EXCEPT !.pc = "yielded",
                                      !.frames = <<SessionFrame(sid)>>]
                       ELSE [k EXCEPT !.pc = "running",
                                      !.run_agent = q.agent,
                                      !.bound = q.tools[q.agent],
                                      !.invocations = 1,
                                      !.agent_sid = sid]]
    /\ nCalls' = nCalls + 1
    /\ UNCHANGED <<config, nEvents, voice, send, tts>>

\* AgnoService.chat
chat(c, failAt, sqlFail, given) ==
    /\ service = "agno"
    /\ Open(c, "chat", failAt, sqlFail, given, "")

\* DiagnosticsService.diagnose
diagnose(c, failAt, sqlFail, given, lid) ==
    /\ service = "diag"
    /\ lid \in ListingIds
    /\ Open(c, "diagnose", failAt, sqlFail, given, lid)

\* AgnoService.chat_stream, up to the yield of the session frame
chat_stream(c, failAt, sqlFail, given) ==
    /\ service = "agno"
    /\ Open(c, "chat_stream", failAt, sqlFail, given, "")

\* The agent run resolves a tool call against the tool list of its Agent
\* object while the run is in flight.
AgentUsesTools(c) ==
    /\ calls[c].pc \in {"running", "awaiting"}
    /\ calls[c].seen # tools[calls[c].run_agent]
    /\ calls' = [calls EXCEPT ![c].seen = tools[calls[c].run_agent]]
    /\ ended' = NewCall
    /\ UNCHANGED <<config, svcVars, nCalls, bound_log, nEvents, voice, send, tts>>

\* response = await self.agent.arun(...) returns resp: chat / diagnose build
\* their result from it and return, or raise what building it raised.
ArunReturns(c, resp) ==
    /\ calls[c].pc = "running"
    /\ resp \in Responses(calls[c].kind)
    /\ LET k == calls[c]
           r == IF k.kind = "chat" THEN chat_result(resp, k.session_id)
                ELSE diagnose_result(resp, k.listing_id, k.session_id)
       IN  ended' = Answered(
                    IF r.raised = ""
                    THEN [k EXCEPT !.pc = "done", !.outcome = "returned",
                                   !.answer = <<resp>>, !.result = r.result]
                    ELSE [k EXCEPT !.pc = "done", !.outcome = "raised",
                                   !.answer = <<resp>>, !.error = r.raised])
    /\ calls' = [calls EXCEPT ![c] = NewCall]
    /\ UNCHANGED <<config, svcVars, nCalls, bound_log, nEvents, voice, send, tts>>

\* The except branch answering with an empty result where it re-raises.
ArunRaises_fallback(c, msg) ==
    /\ calls[c].pc = "running"
    /\ ended' = [calls[c] EXCEPT
                   !.pc = "done", !.outcome = "returned", !.error = msg,
                   !.result = [NoResult EXCEPT
                                 !.response = PyStr(""),
                                 !.diagnostics = PyList(<<>>),
                                 !.session_id = calls[c].session_id]]
    /\ calls' = [calls EXCEPT ![c] = NewCall]
    /\ UNCHANGED <<config, svcVars, nCalls, bound_log, nEvents, voice, send, tts>>

\* await self.agent.arun(...) raises: logged and re-raised.
ArunRaises(c, msg) ==
    /\ calls[c].pc = "running"
    /\ ended' = Answered([calls[c] EXCEPT !.pc = "done",
                                          !.outcome = "raised",
                                          !.error = msg])
    /\ calls' = [calls EXCEPT ![c] = NewCall]
    /\ UNCHANGED <<config, svcVars, nCalls, bound_log, nEvents, voice, send, tts>>

\* The consumer asks chat_stream for its next frame while the generator is
\* suspended at a yield inside the loop or at the session frame: after the
\* session frame the generator calls self.agent.arun(..., stream=True) and
\* starts iterating it, after any other frame it goes on iterating.
StreamResume(c) ==
    /\ calls[c].pc = "yielded"
    /\ LET k == calls[c]
       IN  IF k.run_agent = None
           THEN /\ calls' = [calls EXCEPT ![c] =
                       [k EXCEPT !.pc = "awaiting", !.run_agent = agent,
                                 !.bound = tools[agent],
                                 !.invocations = @ + 1,
                                 !.agent_sid = k.session_id]]
                /\ bound_log' = Append(bound_log, tools[agent][2])
           ELSE /\ calls' = [calls EXCEPT ![c].pc = "awaiting"]
                /\ bound_log' = bound_log
    /\ ended' = NewCall
    /\ UNCHANGED <<config, svcVars, nCalls, nEvents, voice, send, tts>>

\* The agent's stream delivers one event; the dispatch yields its frame, or
\* none and the loop awaits the next event.
StreamEvent(c, ev) ==
    /\ calls[c].pc = "awaiting"
    /\ nEvents < EventBudget
    /\ nEvents' = nEvents + 1
    /\ calls' = [calls EXCEPT
           ![c].frames = @ \o FramesFor(ev),
           ![c].events = IF trace THEN Append(@, ev) ELSE @,
           ![c].pc = IF FramesFor(ev) # <<>> THEN "yielded" ELSE "awaiting"]
    /\ ended' = NewCall
    /\ UNCHANGED <<config, svcVars, nCalls, bound_log, voice, send, tts>>

\* The agent's stream is exhausted: the done frame is yielded.
StreamExhausted(c) ==
    /\ calls[c].pc = "awaiting"
    /\ calls' = [calls EXCEPT ![c].frames = Append(@, DoneFrame),
                              ![c].pc = "terminal"]
    /\ ended' = NewCall
    /\ UNCHANGED <<config, svcVars, nCalls, bound_log, nEvents, voice, send, tts>>

\* The except branch yielding its error frame and then falling through to
\* the done frame.
StreamRaises_done(c, msg) ==
    /\ calls[c].pc = "awaiting"
    /\ calls' = [calls EXCEPT ![c].raised_at = Len(calls[c].frames),
                              ![c].error = msg,
                              ![c].frames = @ \o <<ErrorFrame(msg), DoneFrame>>,
                              ![c].pc = "terminal"]
    /\ ended' = NewCall
    /\ UNCHANGED <<config, svcVars, nCalls, bound_log, nEvents, voice, send, tts>>

\* arun or the iteration of its stream raises: `except Exception` yields an
\* error frame with str(e).
StreamRaises(c, msg) ==
    /\ calls[c].pc = "awaiting"
    /\ calls' = [calls EXCEPT ![c].raised_at = Len(calls[c].frames),
                              ![c].error = msg,
                              ![c].frames = Append(@, ErrorFrame(msg)),
                              ![c].pc = "terminal"]
    /\ ended' = NewCall
    /\ UNCHANGED <<config, svcVars, nCalls, bound_log, nEvents, voice, send, tts>>

\* The consumer asks for the frame after done / after the except branch's
\* error frame: the generator body ends (StopAsyncIteration).
StreamFinish(c) ==
    /\ calls[c].pc = "terminal"
    /\ ended' = [calls[c] EXCEPT !.pc = "done", !.outcome = "returned"]
    /\ calls' = [calls EXCEPT ![c] = NewCall]
    /\ UNCHANGED <<config, svcVars, nCalls, bound_log, nEvents, voice, send, tts>>

\* A close that the except branch answers with an error frame.
StreamAbandon_error(c) ==
    /\ calls[c].pc \in {"yielded", "terminal"}
    /\ ended' = [calls[c] EXCEPT !.pc = "done", !.outcome = "closed",
                                 !.frames = Append(@, ErrorFrame("closed"))]
    /\ calls' = [calls EXCEPT ![c] = NewCall]
    /\ UNCHANGED <<config, svcVars, nCalls, bound_log, nEvents, voice, send, tts>>

\* The consumer closes the generator while it is suspended at a yield
\* (client disconnect): GeneratorExit is no Exception, nothing is yielded.
StreamAbandon(c) ==
    /\ calls[c].pc \in {"yielded", "terminal"}
    /\ ended' = [calls[c] EXCEPT !.pc = "done", !.outcome = "closed"]
    /\ calls' = [calls EXCEPT ![c] = NewCall]
    /\ UNCHANGED <<config, svcVars, nCalls, bound_log, nEvents, voice, send, tts>>

\* -------------------------------------------------------- _sanitize_for_tts
\* A text is a sequence of characters, each a string; the two characters a
\* string of this module cannot hold are written by their code points.
BQ == "U+0060"       \* the backtick

BULLET == "U+2022"   \* the bullet

Whitespace == {" ", "\n", "\t"}

Digits == {"0", "1", "2", "3", "4", "5", "6", "7", "8", "9"}

Min(a, b) == IF a < b THEN a ELSE b

\* The length of the run of characters of S that starts at s[i].
RECURSIVE RunLen(_, _, _)
RunLen(s, i, S) ==
    IF i > Len(s) \/ s[i] \notin S THEN 0 ELSE 1 + RunLen(s, i + 1, S)

\* The length of the run of characters other than ch that starts at s[i].
RECURSIVE RunLenNot(_, _, _)
RunLenNot(s, i, ch) ==
    IF i > Len(s) \/ s[i] = ch THEN 0 ELSE 1 + RunLenNot(s, i + 1, ch)

\* The first position at or after i that holds ch, 0 when there is none;
\* sameLine: the search stops at a newline (`.` matches no newline).
RECURSIVE Find(_, _, _, _)
Find(s, i, ch, sameLine) ==
    IF i > Len(s) THEN 0
    ELSE IF s[i] = ch THEN i
    ELSE IF sameLine /\ s[i] = "\n" THEN 0
    ELSE Find(s, i + 1, ch, sameLine)

\* A match of a pattern at position i: the position after it and the text
\* that replaces it.
NoMatch == [ok |-> FALSE, end |-> 0, repl |-> <<>>]

Matched(end, repl) == [ok |-> TRUE, end |-> end, repl |-> repl]

\* (?m)^ : i is the start of the text or follows a newline.
LineStart(s, i) == i = 1 \/ s[i - 1] = "\n"

\* (?m)$ : i is past the end of the text or holds a newline.
LineEnd(s, i) == i = Len(s) + 1 \/ (i <= Len(s) /\ s[i] = "\n")

\* #{1,6}\s*  ->  ""
header(s, i) ==
    IF s[i] # "#" THEN NoMatch
    ELSE LET k == Min(RunLen(s, i, {"#"}), 6)
         IN  Matched(i + k + RunLen(s, i + k, Whitespace), <<>>)

\* ch{1,3}(.*?)ch{1,3}  ->  \1   for ch = "*" and for ch = "_": the opening
\* run is as long as a match allows, the content as short as possible.
emphasis(s, i, ch) ==
    IF s[i] # ch THEN NoMatch
    ELSE LET r == Min(RunLen(s, i, {ch}), 3)
             Opens == {k \in 1..r : Find(s, i + k, ch, TRUE) # 0}
         IN  IF Opens = {} THEN NoMatch
             ELSE LET k == CHOOSE x \in Opens : \A y \in Opens : y <= x
                      p == Find(s, i + k, ch, TRUE)
                  IN  Matched(p + Min(RunLen(s, p, {ch}), 3),
                              SubSeq(s, i + k, p - 1))

\* `([^`]*)`  ->  \1
inline_code(s, i) ==
    IF s[i] # BQ THEN NoMatch
    ELSE LET q == Find(s, i + 1, BQ, FALSE)
         IN  IF q = 0 THEN NoMatch
             ELSE Matched(q + 1, SubSeq(s, i + 1, q - 1))

\* The first position at or after i where three backticks start, 0 when
\* there is none.
RECURSIVE FindFence(_, _)
FindFence(s, i) ==
    IF i + 2 > Len(s) THEN 0
    ELSE IF s[i] = BQ /\ s[i + 1] = BQ /\ s[i + 2] = BQ THEN i
    ELSE FindFence(s, i + 1)

\* ```[\s\S]*?```  ->  ""
code_fence(s, i) ==
    IF FindFence(s, i) # i THEN NoMatch
    ELSE LET q == FindFence(s, i + 3)
         IN  IF q = 0 THEN NoMatch ELSE Matched(q + 3, <<>>)

\* \[([^\]]+)\]\([^)]+\)  ->  \1
link(s, i) ==
    IF s[i] # "[" THEN NoMatch
    ELSE LET m == RunLenNot(s, i + 1, "]")
             b == i + 1 + m
             u == RunLenNot(s, b + 2, ")")
         IN  IF /\ m >= 1
                /\ b + 1 <= Len(s)
                /\ s[b] = "]"
                /\ s[b + 1] = "("
                /\ u >= 1
                /\ b + 2 + u <= Len(s)
             THEN Matched(b + 2 + u + 1, SubSeq(s, i + 1, b - 1))
             ELSE NoMatch

\* (?m)^\s*[-*\u2022]\s+  ->  ""
bullet(s, i) ==
    IF ~LineStart(s, i) THEN NoMatch
    ELSE LET b == i + RunLen(s, i, Whitespace)
             v == RunLen(s, b + 1, Whitespace)
         IN  IF b <= Len(s) /\ s[b] \in {"-", "*", BULLET} /\ v >= 1
             THEN Matched(b + 1 + v, <<>>)
             ELSE NoMatch

\* (?m)^\s*\d+\.\s+  ->  ""
numbered(s, i) ==
    IF ~LineStart(s, i) THEN NoMatch
    ELSE LET b == i + RunLen(s, i, Whitespace)
             d == RunLen(s, b, Digits)
             v == RunLen(s, b + d + 1, Whitespace)
         IN  IF d >= 1 /\ b + d <= Len(s) /\ s[b + d] = "." /\ v >= 1
             THEN Matched(b + d + 1 + v, <<>>)
             ELSE NoMatch

\* (?m)^[-*_]{3,}\s*$  ->  ""
rule(s, i) ==
    IF ~LineStart(s, i) THEN NoMatch
    ELSE LET r == RunLen(s, i, {"-", "*", "_"})
             Ends == {w \in 0..RunLen(s, i + r, Whitespace) :
                          LineEnd(s, i + r + w)}
         IN  IF r >= 3 /\ Ends # {}
             THEN Matched(i + r + (CHOOSE w \in Ends :
                                       \A x \in Ends : x <= w), <<>>)
             ELSE NoMatch

\* ch{2,}  ->  " "   for ch = "\n" and for ch = " "
run_of(s, i, ch) ==
    IF RunLen(s, i, {ch}) >= 2
    THEN Matched(i + RunLen(s, i, {ch}), <<" ">>)
    ELSE NoMatch

\* \n  ->  " "
newline(s, i) == IF s[i] = "\n" THEN Matched(i + 1, <<" ">>) ELSE NoMatch

\* The patterns of _sanitize_for_tts in the order it applies them.
Patterns ==
    <<"header", "bold", "underscore", "inline_code", "code_fence", "link",
      "bullet", "numbered", "rule", "newlines", "newline", "spaces">>

Match(p, s, i) ==
    CASE p = "header" -> header(s, i)
      [] p = "bold" -> emphasis(s, i, "*")
      [] p = "underscore" -> emphasis(s, i, "_")
      [] p = "inline_code" -> inline_code(s, i)
      [] p = "code_fence" -> code_fence(s, i)
      [] p = "link" -> link(s, i)
      [] p = "bullet" -> bullet(s, i)
      [] p = "numbered" -> numbered(s, i)
      [] p = "rule" -> rule(s, i)
      [] p = "newlines" -> run_of(s, i, "\n")
      [] p = "newline" -> newline(s, i)
      [] p = "spaces" -> run_of(s, i, " ")

\* re.sub(p, repl, s) from position i on: the matches are found from left
\* to right in s, none overlapping the one before it.
RECURSIVE re_sub(_, _, _)
re_sub(p, s, i) ==
    IF i > Len(s) THEN <<>>
    ELSE LET m == Match(p, s, i)
         IN  IF m.ok THEN m.repl \o re_sub(p, s, m.end)
             ELSE <<s[i]>> \o re_sub(p, s, i + 1)

\* str.strip()
strip(s) ==
    LET Kept == {i \in DOMAIN s : s[i] \notin Whitespace}
    IN  IF Kept = {} THEN <<>>
        ELSE SubSeq(s, CHOOSE i \in Kept : \A j \in Kept : i <= j,
                       CHOOSE i \in Kept : \A j \in Kept : j <= i)

\* The substitutions from the n-th pattern on.
RECURSIVE substitute(_, _)
substitute(s, n) ==
    IF n > Len(Patterns) THEN s
    ELSE substitute(re_sub(Patterns[n], s, 1), n + 1)

\* The substitutions without the final strip.
_sanitize_for_tts_unstripped(text) == substitute(text, 1)

_sanitize_for_tts(text) == strip(substitute(text, 1))

\* The texts handed to _sanitize_for_tts: up to MaxPieces pieces of
\* markdown and of plain text, one after the other.
Pieces ==
    { <<"a">>, <<" ">>, <<"\n">>, <<"\t">>, <<BQ>>, <<BQ, BQ, BQ>>,
      <<"-", " ">>, <<"*", "*">>, <<"#">>, <<"_">>, <<"1", ".", " ">>,
      <<"[", "a", "]", "(", "b", ")">>, <<"-", "-", "-">> }

RECURSIVE Concat(_)
Concat(ps) == IF ps = <<>> THEN <<>> ELSE Head(ps) \o Concat(Tail(ps))

TtsInputs == {Concat(ps) : ps \in UNION {[1..n -> Pieces] : n \in 0..MaxPieces}}

NoTts == [text |-> <<>>, once |-> <<>>, twice |-> <<>>, applied |-> 0]

\* _sanitize_for_tts(text), and then _sanitize_for_tts of its result.
Sanitize ==
    /\ tts.applied < 2
    /\ tts' = IF tts.applied = 0
              THEN [tts EXCEPT !.once = _sanitize_for_tts(tts.text),
                               !.applied = 1]
              ELSE [tts EXCEPT !.twice = _sanitize_for_tts(tts.once),
                               !.applied = 2]
    /\ UNCHANGED <<config, svcVars, calls, ended, nCalls, bound_log, nEvents,
                   voice, send>>

\* ----------------------------------------------------------- voice session
\* An item of the chat context: a ChatMessage of the user or of the
\* assistant, or an item that is no ChatMessage (role "").
Item(role, text) == [role |-> role, text |-> text]

Items == { Item("user", "hi"), Item("user", ""), Item("assistant", "ok"),
           Item("", "") }

\* The chat contexts a turn can be handed.
Contexts == UNION { [1..n -> Items] : n \in 0..MaxItems }

\* AgnoStream._get_user_input: the text of the last user message; found is
\* FALSE for the None returned when there is no user message.
RECURSIVE _get_user_input(_)
_get_user_input(ctx) ==
    IF ctx = <<>> THEN [found |-> FALSE, text |-> ""]
    ELSE IF ctx[Len(ctx)].role = "user"
         THEN [found |-> TRUE, text |-> ctx[Len(ctx)].text]
    ELSE _get_user_input(SubSeq(ctx, 1, Len(ctx) - 1))

\* create_agno_agent(): the tools and the Agent of a voice session; the
\* value is the new heap, the new counter and the Agent.
create_agno_agent ==
    LET ddgId == nextId + 1
        sqlId == nextId + 2
        sendId == nextId + 3
        agId == IF webhook_url THEN nextId + 4 ELSE nextId + 3
        list == <<ddgId, sqlId>> \o (IF webhook_url THEN <<sendId>> ELSE <<>>)
    IN  [agent |-> agId, tools |-> (agId :> list) @@ tools, nextId |-> agId]

\* voice_agent(ctx): the session handler builds the session's Agent once
\* and wraps it in the LLMAdapter.
voice_agent ==
    /\ voice.pc = "off"
    /\ LET r == create_agno_agent
       IN  /\ tools' = r.tools
           /\ nextId' = r.nextId
           /\ voice' = [voice EXCEPT !.pc = "idle", !.agent = r.agent]
    /\ UNCHANGED <<config, initialized, ddg_tools, agent, extra_tools, calls,
                   ended, nCalls, bound_log, nEvents, send, tts>>

\* The content of an event of the agent's stream: None, a str (its
\* characters in s) or a value of another type (str(content) in s).
VNone == [t |-> "None", s |-> <<>>]

VStr(s) == [t |-> "str", s |-> s]

VOther(s) == [t |-> "other", s |-> s]

VTruthy(v) == v.t = "other" \/ (v.t = "str" /\ v.s # <<>>)

\* An event of the agent's stream as _to_chat_chunk sees it: its class,
\* whether it has an attribute `content`, and that attribute.
VEv(type, has, content) == [type |-> type, has |-> has, content |-> content]

VoiceEvents ==
    { VEv("RunContentEvent", TRUE, VStr(<<"h", "i">>)),
      VEv("RunContentEvent", TRUE, VStr(<<"#">>)),
      VEv("RunContentEvent", TRUE, VStr(<<"h", "i", " ">>)),
      VEv("RunContentEvent", TRUE, VStr(<<>>)),
      VEv("RunContentEvent", TRUE, VNone),
      VEv("RunContentEvent", TRUE, VOther(<<"7">>)),
      VEv("RunOutput", TRUE, VStr(<<"*", "o", "k", "*">>)),
      VEv("RunOutput", TRUE, VOther(<<"7">>)),
      VEv("RunOutput", TRUE, VNone),
      VEv("RunStartedEvent", TRUE, VNone),
      VEv("ToolCallStartedEvent", TRUE, VNone),
      VEv("ToolCallCompletedEvent", TRUE, VStr(<<"r", "o", "w", "s">>)),
      VEv("RunCompletedEvent", TRUE, VStr(<<"h", "i">>)),
      VEv("RunErrorEvent", TRUE, VStr(<<"e", "r", "r">>)),
      VEv("Unhandled", FALSE, VNone) }

\* The turns of a voice session whose events are recorded have one
\* context and any events; the turns of the others have any context and a
\* content event.
TurnContexts == IF trace THEN {<<Item("user", "hi")>>} ELSE Contexts

TurnEvents ==
    IF trace THEN VoiceEvents
    ELSE {VEv("RunContentEvent", TRUE, VStr(<<"h", "i">>))}

TurnBudget == IF trace THEN MaxTraceCalls ELSE MaxTurns

TurnEventBudget == IF trace THEN MaxTraceEvents ELSE MaxVoiceEvents

\* No chunk, a chunk, or the TypeError of re.sub for a content that is no
\* str.
NoChunk == [chunk |-> FALSE, raised |-> FALSE, content |-> <<>>]

\* A chunk for every text, the empty one included.
Chunk_always(text) == [chunk |-> TRUE, raised |-> FALSE, content |-> text]

Chunk(text) ==
    IF text # <<>> THEN [chunk |-> TRUE, raised |-> FALSE, content |-> text]
    ELSE NoChunk

\* _to_chat_chunk(event)
_to_chat_chunk(event) ==
    LET content ==
            IF event.type = "RunContentEvent" THEN event.content
            ELSE IF event.type = "RunOutput" /\ VTruthy(event.content)
            THEN VStr(event.content.s)
            ELSE IF event.has /\ VTruthy(event.content)
            THEN VStr(event.content.s)
            ELSE VNone
    IN  IF ~VTruthy(content) THEN NoChunk
        ELSE IF content.t # "str"
        THEN [chunk |-> FALSE, raised |-> TRUE, content |-> <<>>]
        ELSE Chunk(_sanitize_for_tts(content.s))

\* LLMAdapter.chat(chat_ctx=ctx) and the start of AgnoStream._run: without
\* a user input the turn returns, otherwise it calls self._agent.arun.
AgnoStream_run(ctx) ==
    /\ voice.pc = "idle"
    /\ voice.turns < TurnBudget
    /\ ctx \in TurnContexts
    /\ LET user_input == _get_user_input(ctx)
       IN  IF ~user_input.found \/ user_input.text = ""
           THEN voice' = [voice EXCEPT !.turns = @ + 1, !.chat_ctx = ctx,
                                       !.input = "", !.runs = 0,
                                       !.events = <<>>, !.chunks = <<>>]
           ELSE voice' = [voice EXCEPT
                   !.turns = @ + 1, !.chat_ctx = ctx,
                   !.input = user_input.text,
                   !.pc = "running", !.runs = 1,
                   !.events = <<>>, !.chunks = <<>>,
                   !.invoked = Append(@, [agent |-> voice.agent,
                                          bound |-> tools[voice.agent],
                                          input |-> user_input.text])]
    /\ UNCHANGED <<config, svcVars, calls, ended, nCalls, bound_log, nEvents,
                   send, tts>>

\* The agent's stream delivers an event: its chunk, if it has one, is sent
\* to the session; a TypeError of _to_chat_chunk ends _run.
AgnoStream_event(ev) ==
    /\ voice.pc = "running"
    /\ Len(voice.events) < TurnEventBudget
    /\ ev \in TurnEvents
    /\ LET chunk == _to_chat_chunk(ev)
       IN  voice' = [voice EXCEPT
               !.events = Append(@, ev),
               !.chunks = IF chunk.chunk THEN Append(@, chunk.content)
                          ELSE @,
               !.pc = IF chunk.raised THEN "idle" ELSE @,
               !.failed = IF chunk.raised THEN TRUE ELSE @]
    /\ UNCHANGED <<config, svcVars, calls, ended, nCalls, bound_log, nEvents,
                   send, tts>>

\* The agent's stream of the turn is exhausted or raises: _run ends.
AgnoStream_run_ends(raised) ==
    /\ voice.pc = "running"
    /\ voice' = [voice EXCEPT !.pc = "idle", !.failed = raised]
    /\ UNCHANGED <<config, svcVars, calls, ended, nCalls, bound_log, nEvents,
                   send, tts>>

\* ------------------------------------------------------------ send_document
MAX_RETRIES == 3

\* A backoff table that starts at its last entry.
RETRY_BACKOFF_reversed == <<4, 2, 1>>

RETRY_BACKOFF == <<1, 2, 4>>

\* A loop of two iterations.
range_short == 0 .. 1

\* range(MAX_RETRIES): the values of `attempt` in the loop of _post.
range_MAX_RETRIES == 0 .. (MAX_RETRIES - 1)

\* The status codes the webhook answers with, and the exception classes
\* httpx.post raises: a timeout, a refused connection, a connection that
\* breaks while the answer is read, and a URL httpx cannot parse.
StatusCodes == {200, 404, 500, 503}

RaisedClasses == {"ConnectTimeout", "ConnectError", "ReadError", "InvalidURL"}

HttpResponse(code) == [raised |-> FALSE, status_code |-> code, cls |-> ""]

HttpRaise(cls) == [raised |-> TRUE, status_code |-> 0, cls |-> cls]

Outcomes ==
    {HttpResponse(code) : code \in StatusCodes}
        \cup {HttpRaise(cls) : cls \in RaisedClasses}

\* An exception object; HTTPStatusError carries its response.
Exc(cls, code) == [cls |-> cls, status_code |-> code]

NoExc == Exc("", 0)

\* The classes an exception is an instance of.
mro(cls) ==
    CASE cls = "ConnectTimeout" ->
             {"ConnectTimeout", "TimeoutException", "TransportError",
              "RequestError", "HTTPError", "Exception"}
      [] cls = "ConnectError" ->
             {"ConnectError", "NetworkError", "TransportError",
              "RequestError", "HTTPError", "Exception"}
      [] cls = "ReadError" ->
             {"ReadError", "NetworkError", "TransportError",
              "RequestError", "HTTPError", "Exception"}
      [] cls = "HTTPStatusError" ->
             {"HTTPStatusError", "HTTPError", "Exception"}
      [] cls = "InvalidURL" -> {"InvalidURL", "Exception"}
      [] OTHER -> {}

isinstance(e, cls) == cls \in mro(e.cls)

\* Only a successful response is accepted.
accepted_2xx(status_code) == status_code < 400

\* `if response.status_code < 500: return response`.
accepted(status_code) == status_code < 500

\* The first failure is kept.
set_last_exception_first(prev, e) == IF prev = NoExc THEN e ELSE prev

\* `last_exception = ...`: each failing attempt overwrites it.
set_last_exception(prev, e) == e

\* One iteration of the loop of _post up to its `if attempt <`: the
\* response is returned, the failure is remembered, or the exception is
\* not caught and leaves _post.
attempt_result(o, last_exception) ==
    IF ~o.raised
    THEN IF accepted(o.status_code)
         THEN [ctl |-> "return", exc |-> NoExc,
               last_exception |-> last_exception]
         ELSE [ctl |-> "continue", exc |-> NoExc,
               last_exception |->
                   set_last_exception(last_exception,
                       Exc("HTTPStatusError", o.status_code))]
    ELSE IF \/ isinstance(Exc(o.cls, 0), "TimeoutException")
            \/ isinstance(Exc(o.cls, 0), "ConnectError")
         THEN [ctl |-> "continue", exc |-> NoExc,
               last_exception |->
                   set_last_exception(last_exception, Exc(o.cls, 0))]
         ELSE [ctl |-> "raise", exc |-> Exc(o.cls, 0),
               last_exception |-> last_exception]

\* response.raise_for_status(): the exception raised, NoExc for none.
raise_for_status(status_code) ==
    IF status_code >= 400 THEN Exc("HTTPStatusError", status_code) ELSE NoExc

\* The end of send_document: the success message, or the except clauses in
\* their order; an exception none of them names leaves send_document.
Sent(title) == "Document '" \o title \o "' has been sent successfully."

Failed(title) == "Failed to send document '" \o title \o "': "

send_document_result(title, e) ==
    IF e = NoExc
    THEN [outcome |-> "returned", result |-> Sent(title), error |-> ""]
    ELSE IF isinstance(e, "TimeoutException")
    THEN [outcome |-> "returned",
          result |-> Failed(title) \o "the request timed out after "
                     \o ToString(MAX_RETRIES) \o " attempts.",
          error |-> ""]
    ELSE IF isinstance(e, "HTTPStatusError")
    THEN [outcome |-> "returned",
          result |-> Failed(title) \o "received status "
                     \o ToString(e.status_code) \o ".",
          error |-> ""]
    ELSE IF isinstance(e, "HTTPError")
    THEN [outcome |-> "returned",
          result |-> Failed(title)
                     \o "could not reach the delivery service after "
                     \o ToString(MAX_RETRIES) \o " attempts.",
          error |-> ""]
    ELSE [outcome |-> "raised", result |-> "", error |-> e.cls]

\* datetime.isoformat() of the clock's reading (seconds after the start of
\* the behaviour).
isoformat(t) == "2024-01-01T00:00:0" \o ToString(t) \o "+00:00"

NoPayload == [title |-> "", url |-> "", recipient |-> "", timestamp |-> ""]

\* The headers carry the bearer token whatever the secret is.
build_headers_always(webhook_secret) ==
    [Authorization |-> Some("Bearer " \o webhook_secret.str)]

\* `headers = {}` and `if self.webhook_secret:`.
build_headers(webhook_secret) ==
    IF webhook_secret.some /\ webhook_secret.str # ""
    THEN [Authorization |-> Some("Bearer " \o webhook_secret.str)]
    ELSE [Authorization |-> Nothing]

\* No SendDocumentTool.
NoSend ==
    [pc |-> "off", webhook_secret |-> Nothing, payload |-> NoPayload,
     headers |-> [Authorization |-> Nothing], attempt |-> 0,
     last_exception |-> NoExc, log |-> <<>>, waits |-> <<>>, now |-> 0,
     outcome |-> "", result |-> "", error |-> "", caller |-> 0,
     on_loop |-> FALSE]

Secrets == {Nothing, Some(""), Some("s3cret")}

Titles == {"Guide", "Manual"}

Recipients == {"", "ann"}

\* send_document(title, url, recipient) up to the call of _post, called by
\* the agent run of request c (0: no request is modelled).  The function is
\* a plain `def`: it runs on the thread its caller runs it on, the thread
\* of the event loop (on_loop) or another one.
send_document_by(c, on_loop, title, url, recipient) ==
    /\ send.pc = "idle"
    /\ c # 0 => calls[c].pc = "running"
    /\ send' = [send EXCEPT
           !.pc = "posting",
           !.caller = c,
           !.on_loop = on_loop,
           !.payload = [title |-> title, url |-> url,
                        recipient |-> recipient,
                        timestamp |-> isoformat(send.now)],
           !.headers = build_headers(send.webhook_secret),
           !.attempt = 0,
           !.last_exception = NoExc]
    /\ UNCHANGED <<config, svcVars, calls, ended, nCalls, bound_log, nEvents,
                   voice, tts>>

send_document(title, url, recipient) ==
    send_document_by(0, FALSE, title, url, recipient)

\* send_document ends: _post returned `response` or raised `e`.
SendEnds(s, e) ==
    LET r == send_document_result(s.payload.title, e)
    IN  [s EXCEPT !.pc = "done", !.outcome = r.outcome,
                  !.result = r.result, !.error = r.error]

\* One httpx.post of _post with outcome `o` and what follows it without a
\* wait: the return of send_document, or the start of time.sleep.
httpx_post(o) ==
    /\ send.pc = "posting"
    /\ LET r == attempt_result(o, send.last_exception)
           s == [send EXCEPT
                    !.log = Append(@, [payload |-> send.payload,
                                       headers |-> send.headers,
                                       outcome |-> o, at |-> send.now]),
                    !.last_exception = r.last_exception]
       IN  send' =
             CASE r.ctl = "return" ->
                      SendEnds(s, raise_for_status(o.status_code))
               [] r.ctl = "raise" -> SendEnds(s, r.exc)
               [] OTHER ->
                      IF s.attempt < MAX_RETRIES - 1
                      THEN [s EXCEPT
                               !.pc = "sleeping",
                               !.waits = Append(@,
                                   [after |-> Len(s.log),
                                    wait |-> RETRY_BACKOFF[s.attempt + 1]])]
                      ELSE IF s.attempt + 1 \in range_MAX_RETRIES
                      THEN [s EXCEPT !.attempt = @ + 1]
                      ELSE SendEnds(s, s.last_exception)
    /\ UNCHANGED <<config, svcVars, calls, ended, nCalls, bound_log, nEvents,
                   voice, tts>>

\* time.sleep(wait) returns; the loop goes on, or ends and _post raises
\* last_exception.
time_sleep(wait) ==
    /\ send.pc = "sleeping"
    /\ wait = send.waits[Len(send.waits)].wait
    /\ LET s == [send EXCEPT !.now = @ + wait]
       IN  send' = IF s.attempt + 1 \in range_MAX_RETRIES
                   THEN [s EXCEPT !.pc = "posting", !.attempt = @ + 1]
                   ELSE SendEnds(s, s.last_exception)
    /\ UNCHANGED <<config, svcVars, calls, ended, nCalls, bound_log, nEvents,
                   voice, tts>>

\* ------------------------------------------------------------ specification
\* No voice session.
NoVoice ==
    [pc |-> "off", agent |-> None, chat_ctx |-> <<>>, input |-> "",
     turns |-> 0, invoked |-> <<>>, failed |-> FALSE, runs |-> 0,
     events |-> <<>>, chunks |-> <<>>]

\* The process before anything is constructed.
Fresh ==
    /\ initialized = FALSE
    /\ ddg_tools = None
    /\ agent = None
    /\ extra_tools = <<>>
    /\ tools = <<>>
    /\ nextId = 0
    /\ calls = [c \in Calls |-> NewCall]
    /\ ended = NewCall
    /\ nCalls = 0
    /\ bound_log = <<>>
    /\ nEvents = 0
    /\ voice = NoVoice

\* A service instance as its constructor leaves it.  Only
\* DiagnosticsService reads DOCUMENT_WEBHOOK_URL.
Setup ==
    /\ service \in {"agno", "diag"}
    /\ webhook_url \in (IF service = "diag" THEN BOOLEAN ELSE {FALSE})
    /\ Fresh
    /\ send = NoSend
    /\ tts = NoTts

\* The caller serializes the requests of a service (spec section 5, (a)).
Init == Setup /\ overlap = FALSE /\ args = FALSE /\ trace = FALSE

\* Requests overlap: calls interleave at their suspension points.
InitConc == Setup /\ overlap = TRUE /\ args = FALSE /\ trace = FALSE

\* Serialized requests whose arguments and answers vary.
InitArgs == Setup /\ overlap = FALSE /\ args = TRUE /\ trace = FALSE

\* What a call does once it is open.
Step(c) ==
    \/ AgentUsesTools(c)
    \/ \E resp \in AllResponses("chat") \cup AllResponses("diagnose") :
           ArunReturns(c, resp)
    \/ \E msg \in Msgs : ArunRaises(c, msg)
    \/ StreamResume(c)
    \/ \E ev \in Events : StreamEvent(c, ev)
    \/ StreamExhausted(c)
    \/ \E msg \in Msgs : StreamRaises(c, msg)
    \/ StreamFinish(c)
    \/ StreamAbandon(c)

\* A call starts.
Begin(c) ==
    \/ \E f \in FailPoints : CallInitialize(c, f)
    \/ \E f \in FailPoints : CallEnsureInitialized(c, f)
    \/ cleanup(c)
    \/ \E f \in FailPoints, x \in BOOLEAN, sid \in AllSessionIds :
           chat(c, f, x, sid)
    \/ \E f \in FailPoints, x \in BOOLEAN, sid \in AllSessionIds :
           chat_stream(c, f, x, sid)
    \/ \E f \in FailPoints, x \in BOOLEAN, sid \in AllSessionIds,
          lid \in AllListingIds :
           diagnose(c, f, x, sid, lid)

Next == \E c \in Calls : Begin(c) \/ Step(c)

Spec == Init /\ [][Next]_vars

SpecConc == InitConc /\ [][Next]_vars

SpecArgs == InitArgs /\ [][Next]_vars

\* One chat_stream call of an AgnoService whose events are recorded.
InitTrace ==
    /\ Setup
    /\ service = "agno"
    /\ overlap = FALSE
    /\ args = FALSE
    /\ trace = TRUE

NextTrace ==
    \E c \in Calls :
        \/ \E f \in FailPoints, x \in BOOLEAN, sid \in AllSessionIds :
               chat_stream(c, f, x, sid)
        \/ StreamResume(c)
        \/ \E ev \in Events \cup LongEvents : StreamEvent(c, ev)
        \/ StreamExhausted(c)
        \/ \E msg \in Msgs : StreamRaises(c, msg)
        \/ StreamFinish(c)
        \/ StreamAbandon(c)

SpecTrace == InitTrace /\ [][NextTrace]_vars

\* A voice worker process at the start of a job.
InitVoice ==
    /\ service = "voice"
    /\ overlap = FALSE
    /\ args = FALSE
    /\ trace = FALSE
    /\ webhook_url \in BOOLEAN
    /\ Fresh
    /\ send = NoSend
    /\ tts = NoTts

NextVoice ==
    \/ voice_agent
    \/ \E ctx \in Contexts : AgnoStream_run(ctx)
    \/ \E ev \in VoiceEvents : AgnoStream_event(ev)
    \/ \E raised \in BOOLEAN : AgnoStream_run_ends(raised)

SpecVoice == InitVoice /\ [][NextVoice]_vars

\* A voice worker process whose turns' events are recorded.
InitChunks ==
    /\ service = "voice"
    /\ overlap = FALSE
    /\ args = FALSE
    /\ trace = TRUE
    /\ webhook_url \in BOOLEAN
    /\ Fresh
    /\ send = NoSend
    /\ tts = NoTts

SpecChunks == InitChunks /\ [][NextVoice]_vars

\* A SendDocumentTool as its constructor leaves it, with or without a
\* webhook secret, and one call of send_document by the agent.
InitSend ==
    /\ service = "send"
    /\ overlap = FALSE
    /\ args = FALSE
    /\ trace = FALSE
    /\ webhook_url = TRUE
    /\ Fresh
    /\ \E secret \in Secrets :
           send = [NoSend EXCEPT !.pc = "idle", !.webhook_secret = secret]
    /\ tts = NoTts

\* httpx.post and time.sleep return only when they are done: while
\* send_document runs on the thread of the event loop, that thread runs
\* nothing else.
Blocked == send.on_loop /\ send.pc \in {"posting", "sleeping"}

\* The event loop starts a diagnose request.
LoopDiagnose(c) ==
    /\ ~Blocked
    /\ \E f \in FailPoints, x \in BOOLEAN, sid \in AllSessionIds,
          lid \in AllListingIds : diagnose(c, f, x, sid, lid)

\* The event loop resumes a request whose agent run has returned; a run
\* does not return while its tool call is in progress.
LoopArunReturns(c) ==
    /\ ~Blocked
    /\ ~(send.caller = c /\ send.pc \in {"posting", "sleeping"})
    /\ \E resp \in AllResponses("diagnose") : ArunReturns(c, resp)

\* A DiagnosticsService with the webhook configured whose requests overlap
\* and whose agent calls send_document once.
InitLoop ==
    /\ service = "diag"
    /\ overlap = TRUE
    /\ args = FALSE
    /\ trace = FALSE
    /\ webhook_url = TRUE
    /\ Fresh
    /\ send = [NoSend EXCEPT !.pc = "idle"]
    /\ tts = NoTts

NextLoop ==
    \/ \E c \in Calls : LoopDiagnose(c)
    \/ \E c \in Calls : LoopArunReturns(c)
    \/ \E c \in Calls, on_loop \in BOOLEAN :
           send_document_by(c, on_loop, "Guide",
                            "https://docs.example/g.pdf", "")
    \/ \E o \in Outcomes : httpx_post(o)
    \/ \E wait \in {RETRY_BACKOFF[i] : i \in DOMAIN RETRY_BACKOFF} :
           time_sleep(wait)

SpecLoop == InitLoop /\ [][NextLoop]_vars

NextSend ==
    \/ \E title \in Titles, recipient \in Recipients :
           send_document(title, "https://docs.example/g.pdf", recipient)
    \/ \E o \in Outcomes : httpx_post(o)
    \/ \E wait \in {RETRY_BACKOFF[i] : i \in DOMAIN RETRY_BACKOFF} :
           time_sleep(wait)

SpecSend == InitSend /\ [][NextSend]_vars

\* A text of the agent on its way to the speech synthesis.
InitTts ==
    /\ service = "tts"
    /\ overlap = FALSE
    /\ args = FALSE
    /\ trace = FALSE
    /\ webhook_url = FALSE
    /\ Fresh
    /\ send = NoSend
    /\ \E text \in TtsInputs : tts = [NoTts EXCEPT !.text = text]

NextTts == Sanitize

SpecTts == InitTts /\ [][NextTts]_vars

\* ---------------------------------------------------------------- properties
\* The calls the state tells about: those in progress and the one that ended
\* in the last step.
Records == {calls[c] : c \in Calls} \cup {ended}

StreamRecords == {k \in Records : k.kind = "chat_stream"}

\* The calls that have invoked the agent.
Invoked == {k \in Records : k.run_agent # None}

\* The frames of fr whose type is one of types.
Count(fr, types) == Cardinality({i \in DOMAIN fr : fr[i].type \in types})

NoDup(s) == \A i, j \in DOMAIN s : s[i] = s[j] => i = j

InitKinds == {"initialize", "ensure_initialized"}

\* C1: every chat_stream call that ran to its end, whatever the agent
\* yielded and whatever failed, emitted a frame sequence that begins with
\* exactly one session frame and ends with exactly one done or error frame.
C1_SessionFirstOneTerminalLast ==
    (ended.kind = "chat_stream" /\ ended.outcome \in {"returned", "raised"})
    => LET fr == ended.frames
       IN  /\ fr # <<>>
           /\ fr[1].type = "session"
           /\ Count(fr, {"session"}) = 1
           /\ fr[Len(fr)].type \in {"done", "error"}
           /\ Count(fr, {"done", "error"}) = 1

\* C2: an error frame is the last frame of a chat_stream output (after the
\* frame of a RunError event the stream terminates), and no output holds
\* both an error frame and a done frame.
C2_ErrorExcludesDone ==
    \A k \in StreamRecords :
        /\ \A i \in DOMAIN k.frames :
               k.frames[i].type = "error" => i = Len(k.frames)
        /\ ~(Count(k.frames, {"error"}) > 0 /\ Count(k.frames, {"done"}) > 0)

\* C3: when arun or the iteration of its events raises in chat_stream, the
\* generator yields exactly one frame after the frames it had yielded, the
\* error frame carrying the exception's message; it yields no done frame and
\* nothing else, and it ends by returning, never by raising.
C3_RaiseYieldsOneErrorFrame ==
    \A k \in StreamRecords :
        k.raised_at > 0 =>
            /\ Len(k.frames) = k.raised_at + 1
            /\ k.frames[Len(k.frames)] = ErrorFrame(k.error)
            /\ Count(k.frames, {"done"}) = 0
            /\ k.pc \in {"terminal", "done"}
            /\ k.outcome # "raised"

\* A chat_stream call whose stream raised after a frame of the run and that
\* has returned.
C3_Witness ==
    /\ ended.kind = "chat_stream"
    /\ ended.raised_at > 1
    /\ ended.outcome = "returned"

\* C4: no failure inside a chat_stream call reaches the consumer as an
\* exception: a call that failed (in ensure_initialized, in the construction
\* of the fresh SQL tool, in the run) ends with an error frame as its last
\* frame.
C4_NoExceptionCrossesStream ==
    (ended.kind = "chat_stream" /\ ended.error # "")
    => /\ ended.outcome # "raised"
       /\ ended.frames # <<>>
       /\ ended.frames[Len(ended.frames)] = ErrorFrame(ended.error)

\* C5 as stated: a call that has invoked the agent constructed exactly one
\* SQL tool, the bound list is the cached search tool, that instance and the
\* extra tools, and no SQL tool is bound at two invocations.
C5_OneSqlPerCall ==
    /\ \A k \in Invoked :
           /\ Len(IdsOf(k.made, "sql")) = 1
           /\ k.bound = ToolList(ddg_tools, IdsOf(k.made, "sql")[1],
                                 extra_tools)
    /\ NoDup(bound_log)

\* C5, amended: with non-overlapping calls, a call that has invoked the
\* agent constructed exactly one SQL tool in its refresh, plus one inside
\* initialize when the call itself initialized the service; the bound list
\* is the cached search tool, the instance of the refresh and the extra
\* tools; no SQL tool is bound at two invocations.
C5_FreshSqlBound ==
    /\ \A k \in Invoked :
           LET sqls == IdsOf(k.made, "sql")
           IN  /\ Len(sqls) = 1 + k.tried
               /\ k.fresh = sqls[Len(sqls)]
               /\ k.bound = ToolList(ddg_tools, k.fresh, extra_tools)
    /\ NoDup(bound_log)

\* A second invocation, by a call that initialized the service itself.
C5_Witness ==
    /\ Len(bound_log) >= 2
    /\ \E k \in Invoked : k.tried = 1 /\ Len(IdsOf(k.made, "sql")) = 2

\* C6: the tool list is a field of the one Agent object: when a request
\* opens (and refreshes) while another request's run on the same Agent is in
\* flight, the list that run resolves its tools against becomes the list
\* with the opening request's SQL tool, which the run's request did not
\* create.
C6_RefreshReplacesSharedList ==
    [][\A c, d \in Calls :
          (/\ c # d
           /\ calls[c].pc \in {"running", "awaiting"}
           /\ calls'[c] = calls[c]
           /\ calls[d].pc = "new"
           /\ calls'[d].pc # "new"
           /\ agent' = calls[c].run_agent)
          => /\ tools'[calls[c].run_agent][2] = calls'[d].fresh
             /\ tools'[calls[c].run_agent][2] # calls[c].fresh]_vars

\* A run that was invoked with its own SQL tool has resolved a tool against
\* a list holding an instance its request did not create.
C6_Witness ==
    \E c \in Calls :
        /\ calls[c].pc \in {"running", "awaiting"}
        /\ calls[c].bound[2] = calls[c].fresh
        /\ calls[c].seen # <<>>
        /\ calls[c].seen[2] # calls[c].fresh

\* C7: in every request path the refresh is immediately before the
\* invocation: at the invocation the agent's list holds the SQL tool of the
\* request's own refresh, whatever the interleaving.
C7_RefreshImmediatelyBeforeInvocation ==
    \A k \in Invoked : k.bound[2] = k.fresh

\* C8: two turns of a voice session never invoke the agent with the same
\* SQL tool instance.
C8_FreshSqlPerTurn ==
    \A i, j \in DOMAIN voice.invoked :
        i # j => voice.invoked[i].bound[2] # voice.invoked[j].bound[2]

\* C9: a successful initialize / ensure_initialized on an initialized
\* service changes no state and constructs nothing; on a service that is not
\* initialized it constructs exactly one Agent and one search tool, which
\* become self.agent and self.ddg_tools, and sets the flag.
C9_InitializeIdempotent ==
    [][(ended'.kind \in InitKinds /\ ended'.outcome = "returned")
       => IF initialized
          THEN UNCHANGED svcVars /\ ended'.made = <<>>
          ELSE /\ initialized'
               /\ IdsOf(ended'.made, "agent") = <<agent'>>
               /\ IdsOf(ended'.made, "ddg") = <<ddg_tools'>>]_vars

\* An initialize / ensure_initialized call that found the service
\* initialized.
C9_Witness ==
    /\ ended.kind \in InitKinds
    /\ ended.outcome = "returned"
    /\ ended.tried = 0
    /\ initialized
    /\ nCalls >= 2

\* C10: a call in which a construction step of initialize threw ends by
\* raising, leaves the service not initialized and its agent as it was, and
\* built no kind of object twice (no retry inside); an ensure_initialized on
\* a service that is not initialized enters the construction again.
C10_FailedInitialize ==
    [][/\ (ended'.tried = 1 /\ IdsOf(ended'.made, "agent") = <<>>)
          => /\ ended'.outcome = "raised"
             /\ ~initialized'
             /\ agent' = agent
             /\ \A kd \in {"ddg", "sql", "send"} :
                    Len(IdsOf(ended'.made, kd)) <= 1
       /\ (~initialized /\ ended'.kind = "ensure_initialized")
          => ended'.tried = 1]_vars

\* An ensure_initialized that built the first Agent of the service although
\* objects had been constructed before: an earlier initialization failed
\* part-way and this call tried again.
C10_Witness ==
    /\ ended.kind = "ensure_initialized"
    /\ ended.outcome = "returned"
    /\ ended.tried = 1
    /\ ended.made[1].id > 1
    /\ Cardinality(DOMAIN tools) = 1

\* The requests that got past ensure_initialized and the refresh.
Requests ==
    {k \in Records : k.kind \in {"chat", "chat_stream", "diagnose"}
                     /\ k.fresh # None}

\* len(v)
PyLen(v) == IF v.t = "str" THEN Len(v.s) ELSE Len(v.l)

\* C11: a supplied session_id, whatever its value, is the session_id of the
\* call; without one the session_id is a 36-character identifier; the
\* session_id of the call is the one passed to the agent and the one
\* returned in the result or in the session frame.
C11_SessionIdEchoed ==
    \A k \in Requests :
        /\ k.given.some => k.session_id = k.given.str
        /\ ~k.given.some => Len(k.session_id) = 36
        /\ k.invocations > 0 => k.agent_sid = k.session_id
        /\ (k.kind # "chat_stream" /\ k.outcome = "returned")
           => k.result.session_id = k.session_id
        /\ k.kind = "chat_stream" => k.frames[1] = SessionFrame(k.session_id)

\* C12: a chat / diagnose call never invokes the agent twice, and invokes it
\* once when it got past ensure_initialized and the refresh; when the
\* invocation raised, the call ends by raising that exception, with no
\* result.
C12_OneInvocationNoFallback ==
    \A k \in Records :
        k.kind \in {"chat", "diagnose"} =>
            /\ k.invocations = (IF k.fresh # None THEN 1 ELSE 0)
            /\ k.error \in Msgs =>
                   /\ k.outcome = "raised"
                   /\ k.invocations = 1
                   /\ k.result = NoResult

\* A chat or diagnose call whose invocation raised.
C12_Witness ==
    /\ ended.kind \in {"chat", "diagnose"}
    /\ ended.error \in Msgs
    /\ ended.outcome = "raised"
    /\ ended.invocations = 1

\* C13: the response chat returns is never None: it is the agent's content
\* when that is a non-empty text and the empty string when the agent gave
\* no content or an empty one.
C13_ResponseNeverNull ==
    (ended.kind = "chat" /\ ended.outcome = "returned") =>
        LET content == ended.answer[1].content
        IN  /\ ended.result.response.t # "None"
            /\ ended.result.response =
                   (IF content \in {PyNone, PyStr("")} THEN PyStr("")
                    ELSE content)

\* chat returned for an agent that produced no content.
C13_Witness ==
    /\ ended.kind = "chat"
    /\ ended.outcome = "returned"
    /\ ended.answer = <<Response(TRUE, PyNone)>>
    /\ ended.result.response = PyStr("")

\* The content is a well-formed diagnostics structure: a DiagnosticsOutput,
\* or a text that is a JSON object with a list under "diagnostics".
WellFormed(resp) ==
    /\ resp.has
    /\ \/ resp.content.t = "DiagnosticsOutput"
       \/ /\ json_loads(resp.content).ok
          /\ json_loads(resp.content).value.t = "dict"
          /\ json_loads(resp.content).value.d # <<>>
          /\ json_loads(resp.content).value.d[1].t = "list"

\* C19: the diagnostics diagnose returns have at most 5 entries, for a
\* structured content and for a parsed text alike.
C19_AtMostFiveDiagnostics ==
    (ended.kind = "diagnose" /\ ended.outcome = "returned")
    => PyLen(ended.result.diagnostics) <= max_length

\* C20: when the agent returned and its content is not a well-formed
\* diagnostics structure, diagnose returns an empty diagnostics list and
\* does not raise.
C20_MalformedGivesEmpty ==
    (/\ ended.kind = "diagnose"
     /\ ended.answer # <<>>
     /\ ~WellFormed(ended.answer[1]))
    => /\ ended.outcome = "returned"
       /\ ended.result.diagnostics = PyList(<<>>)

\* ------------------------------------------------- send_document properties
Attempts == Len(send.log)

SendDone == send.pc = "done"

Below500(o) == ~o.raised /\ o.status_code < 500

Is5xx(o) == ~o.raised /\ o.status_code >= 500

Is4xx(o) == ~o.raised /\ o.status_code >= 400 /\ o.status_code < 500

IsTimeout(o) == o.raised /\ o.cls = "ConnectTimeout"

IsConnectError(o) == o.raised /\ o.cls = "ConnectError"

Transient(o) == Is5xx(o) \/ IsTimeout(o) \/ IsConnectError(o)

FailureString(title) ==
    {Failed(title) \o "the request timed out after 3 attempts.",
     Failed(title) \o "could not reach the delivery service after 3 attempts."}
        \cup {Failed(title) \o "received status " \o ToString(code) \o "." :
                  code \in StatusCodes}

\* What every reading of C14 shares: the attempts follow one another, there
\* are between 1 and 3 of them, none follows a response below 500, three
\* 5xx responses give 3 attempts and a failure string, and a 5xx followed
\* by a 200 gives 2 attempts and the success message.
C14_Common ==
    /\ Attempts <= 3
    /\ send.pc \in {"sleeping", "done"} => Attempts >= 1
    /\ \A i, j \in DOMAIN send.log :
           i < j => /\ send.log[i].at <= send.log[j].at
                    /\ ~Below500(send.log[i].outcome)
    /\ send.pc = "sleeping" => Attempts = Len(send.waits)
    /\ SendDone /\ Attempts = 3 /\ (\A i \in 1 .. 3 : Is5xx(send.log[i].outcome))
           => /\ send.outcome = "returned"
              /\ send.result \in FailureString(send.payload.title)
    /\ Attempts >= 2 /\ Is5xx(send.log[1].outcome)
                     /\ Below500(send.log[2].outcome)
                     /\ send.log[2].outcome.status_code = 200
           => /\ SendDone
              /\ Attempts = 2
              /\ send.outcome = "returned"
              /\ send.result = Sent(send.payload.title)
    /\ Attempts >= 3 /\ (\A i \in 1 .. 3 : Is5xx(send.log[i].outcome))
           => SendDone

C15_ClientErrorTerminal ==
    \A i \in DOMAIN send.log :
        Is4xx(send.log[i].outcome) =>
            /\ SendDone
            /\ i = Attempts
            /\ Len(send.waits) = i - 1
            /\ \A k \in DOMAIN send.waits : send.waits[k].after < i
            /\ send.now = send.log[i].at
            /\ send.outcome = "returned"
            /\ send.result =
                   Failed(send.payload.title) \o "received status "
                       \o ToString(send.log[i].outcome.status_code) \o "."

\* A 4xx response on the second attempt, after one backoff wait.
C15_Witness ==
    /\ SendDone
    /\ Attempts = 2
    /\ Transient(send.log[1].outcome)
    /\ Is4xx(send.log[2].outcome)
    /\ Len(send.waits) = 1

\* C16: send_document never raises: whatever way a delivery attempt fails
\* (timeout, connection error, another transport error, any other
\* exception of the HTTP call), the call returns a natural-language string.
C16_NeverRaises ==
    SendDone => /\ send.outcome = "returned"
                /\ send.result \in {Sent(send.payload.title)}
                                       \cup FailureString(send.payload.title)

\* The message C17 names for a transient failure `o`.
MessageFor(title, o) ==
    IF IsTimeout(o)
    THEN Failed(title) \o "the request timed out after 3 attempts."
    ELSE IF Is5xx(o)
    THEN Failed(title) \o "received status " \o ToString(o.status_code)
             \o "."
    ELSE Failed(title)
             \o "could not reach the delivery service after 3 attempts."

\* C17: when all 3 attempts fail transiently, the returned message is the
\* one of the third attempt's failure, whatever the first two failures
\* were: timed out, received status <code>, or could not reach.
C17_LastFailureDecides ==
    SendDone /\ Attempts = 3
             /\ (\A i \in 1 .. 3 : Transient(send.log[i].outcome))
        => /\ send.outcome = "returned"
           /\ send.result =
                  MessageFor(send.payload.title, send.log[3].outcome)

\* Three transient failures of three different kinds, a timeout last.
C17_Witness ==
    /\ SendDone
    /\ Attempts = 3
    /\ Is5xx(send.log[1].outcome)
    /\ IsConnectError(send.log[2].outcome)
    /\ IsTimeout(send.log[3].outcome)
    /\ send.result = Failed(send.payload.title)
                         \o "the request timed out after 3 attempts."

\* A secret is configured: DOCUMENT_WEBHOOK_SECRET is set to a non-empty
\* value.
Configured == send.webhook_secret.some /\ send.webhook_secret.str # ""

\* C18: within one call the payload and the headers are built once, before
\* the first attempt, and every attempt sends the same ones (the timestamp
\* is the time of the call, not of the attempt); every attempt carries the
\* bearer header when a secret is configured and none carries one
\* otherwise.
C18_PayloadAndHeadersBuiltOnce ==
    \A i \in DOMAIN send.log :
        /\ send.log[i].payload = send.log[1].payload
        /\ send.log[i].headers = send.log[1].headers
        /\ send.log[i].payload.timestamp = isoformat(send.log[1].at)
        /\ send.log[i].payload.title \in Titles
        /\ send.log[i].payload.recipient \in Recipients
        /\ IF Configured
           THEN send.log[i].headers.Authorization
                    = Some("Bearer " \o send.webhook_secret.str)
           ELSE send.log[i].headers.Authorization = Nothing

\* A third attempt, three seconds after the first, with the bearer header.
C18_Witness ==
    /\ Attempts = 3
    /\ Configured
    /\ send.log[3].at > send.log[1].at
    /\ send.log[3].headers.Authorization = Some("Bearer s3cret")
    /\ send.log[3].payload.timestamp = isoformat(send.log[1].at)

\* C21: when the agent's content is a DiagnosticsOutput, diagnose returns
\* exactly its entries in their order; every successful diagnose returns
\* the listing_id it was called with.
C21_StructuredOutputUsedDirectly ==
    ended.kind = "diagnose" =>
        /\ ended.outcome = "returned"
               => ended.result.listing_id = ended.listing_id
        /\ (/\ ended.answer # <<>>
            /\ ended.answer[1].has
            /\ ended.answer[1].content.t = "DiagnosticsOutput")
               => /\ ended.outcome = "returned"
                  /\ ended.result.diagnostics.t = "list"
                  /\ ended.result.diagnostics.l = ended.answer[1].content.l

\* A DiagnosticsOutput whose entries are not in alphabetical order, for
\* the second listing.
C21_Witness ==
    /\ ended.kind = "diagnose"
    /\ ended.outcome = "returned"
    /\ ended.answer = <<Response(TRUE, DiagnosticsOutput(<<"d2", "d1">>))>>
    /\ ended.listing_id = "L-2"
    /\ ended.result.diagnostics = PyList(<<"d2", "d1">>)

\* C24: when the consumer closes chat_stream while it is suspended at a
\* yield, after whatever frame, the generator ends without raising and
\* without another frame: the frames are those yielded before the close.
C24_AbandonEmitsNothing ==
    [][\A c \in Calls :
           (/\ calls[c].kind = "chat_stream"
            /\ calls[c].pc \in {"yielded", "terminal"}
            /\ calls'[c] = NewCall
            /\ ended'.outcome # "returned")
               => /\ ended'.outcome = "closed"
                  /\ ended'.error = calls[c].error
                  /\ ended'.frames = calls[c].frames]_vars

\* A stream closed at the yield of a content or tool_start frame that
\* followed other frames.
C24_Witness ==
    /\ ended.kind = "chat_stream"
    /\ ended.outcome = "closed"
    /\ Len(ended.frames) >= 3
    /\ ended.frames[Len(ended.frames)].type \in {"content", "tool_start"}

\* The frame types C25 names for a sequence of events, in event order.
RECURSIVE ExpectedTypes(_)
ExpectedTypes(evs) ==
    IF evs = <<>> THEN <<>>
    ELSE (CASE Head(evs).type = "ToolCallStartedEvent" -> <<"tool_start">>
            [] Head(evs).type = "ToolCallCompletedEvent" ->
                   <<"tool_complete">>
            [] Head(evs).type = "RunContentEvent" /\ Head(evs).val # "" ->
                   <<"content">>
            [] Head(evs).type = "RunErrorEvent" -> <<"error">>
            [] OTHER -> <<>>)
         \o ExpectedTypes(Tail(evs))

\* The frames of a stream between its session frame and its done frame.
Between(frames) ==
    LET rest == Tail(frames)
    IN  IF rest # <<>> /\ rest[Len(rest)].type = "done"
        THEN SubSeq(rest, 1, Len(rest) - 1)
        ELSE rest

RECURSIVE Streamed(_)
Streamed(frames) ==
    IF frames = <<>> THEN {}
    ELSE (IF Head(frames).type = "content" THEN {Head(frames).val} ELSE {})
         \cup Streamed(Tail(frames))

\* C26: when the stream delivers a RunOutput carrying content and no content
\* frame was emitted for that content earlier, chat_stream emits a content
\* frame for it (and none when the content was already streamed).
C26_FinalContentEmitted ==
    \A k \in StreamRecords :
        \A i \in DOMAIN k.events :
            k.events[i].type = "RunOutput" /\ k.events[i].val # ""
                => k.events[i].val \in Streamed(k.frames)

\* C30: the POST /chat and POST /diagnostics handlers answer 500 with the
\* exception's message as detail when the service call raises, and 200
\* with the service's result when it returns.
C30_HandlerMapsOutcome ==
    ended.kind \in {"chat", "diagnose"} =>
        /\ ended.outcome = "raised"
               => ended.http.status = 500 /\ ended.http.detail = ended.error
        /\ ended.outcome = "returned"
               => ended.http.status = 200 /\ ended.http.body = ended.result

\* ------------------------------------------------------ sanitize properties
Chars(s) == {s[i] : i \in DOMAIN s}

\* C27: sanitize is idempotent: sanitize(sanitize(x)) = sanitize(x) for
\* every text x.
C27_SanitizeIdempotent == tts.applied = 2 => tts.twice = tts.once

\* The text holds a block opened and closed by triple backticks, the letter
\* "a" occurs between the two fences and nowhere else.
FencedA(text) ==
    LET open == FindFence(text, 1)
        close == IF open = 0 THEN 0 ELSE FindFence(text, open + 3)
    IN  /\ open # 0
        /\ close # 0
        /\ "a" \in Chars(SubSeq(text, open + 3, close - 1))
        /\ "a" \notin Chars(SubSeq(text, 1, open - 1))
        /\ "a" \notin Chars(SubSeq(text, close + 3, Len(text)))

\* C28: sanitize removes a fenced code block entirely: neither a fence
\* marker nor the text between the fences is in the output.
C28_FencedBlockRemoved ==
    tts.applied >= 1 /\ FencedA(tts.text)
        => /\ BQ \notin Chars(tts.once)
           /\ "a" \notin Chars(tts.once)

\* C29: the output of sanitize holds no newline and no two spaces in a row,
\* and neither starts nor ends with whitespace.
C29_WhitespaceNormalized ==
    tts.applied >= 1 =>
        /\ "\n" \notin Chars(tts.once)
        /\ \A i \in DOMAIN tts.once :
               i > 1 => ~(tts.once[i - 1] = " " /\ tts.once[i] = " ")
        /\ tts.once # <<>>
               => /\ tts.once[1] \notin Whitespace
                  /\ tts.once[Len(tts.once)] \notin Whitespace

\* A text that starts with a newline and a space before its only letter.
C29_Witness ==
    /\ tts.applied >= 1
    /\ tts.text = <<"\n", " ", "a">>
    /\ tts.once = <<"a">>

\* ----------------------------------------------------- voice turn properties
\* The events of the turn that C22 lets produce a chunk.
RECURSIVE Speakable(_)
Speakable(evs) ==
    IF evs = <<>> THEN <<>>
    ELSE (IF \/ Head(evs).type = "RunContentEvent"
             \/ Head(evs).type = "RunOutput" /\ VTruthy(Head(evs).content)
          THEN <<Head(evs)>> ELSE <<>>)
         \o Speakable(Tail(evs))

\* C22: in a voice turn only ContentDelta events and RunFinal events with
\* content produce a chat chunk; an event of any other kind produces none,
\* whatever fields it carries.
C22_OnlyContentAndFinalChunk ==
    /\ Len(voice.chunks) <= Len(Speakable(voice.events))
    /\ Speakable(voice.events) = <<>> => voice.chunks = <<>>

\* The context holds a user-authored message; the text of the last one.
HasUser(ctx) == \E i \in DOMAIN ctx : ctx[i].role = "user"

LastUserText(ctx) ==
    ctx[CHOOSE i \in DOMAIN ctx :
            /\ ctx[i].role = "user"
            /\ \A j \in DOMAIN ctx : ctx[j].role = "user" => j <= i].text

\* C23: a voice turn invokes the agent if and only if its context holds a
\* user-authored message, then once and with the text of the most recent
\* one; without a user message it invokes nothing and sends no chunk.
C23_InvokedIffUserMessage ==
    voice.turns > 0 =>
        IF HasUser(voice.chat_ctx)
        THEN /\ voice.runs = 1
             /\ voice.invoked # <<>>
             /\ voice.invoked[Len(voice.invoked)].input
                    = LastUserText(voice.chat_ctx)
        ELSE /\ voice.runs = 0
             /\ voice.chunks = <<>>

\* ---------------------------------------------------------------- C32, C33
\* The transient failure that precedes wait `w`, and the time the wait took.
WaitAfter(w) == send.log[w.after].outcome

WaitLasted(w) ==
    IF w.after + 1 \in DOMAIN send.log
    THEN send.log[w.after + 1].at - send.log[w.after].at
    ELSE send.now - send.log[w.after].at

\* C32: a backoff wait occurs only after a transient failure on attempt 1
\* or 2 and lasts 1 s and 2 s respectively; no wait follows the third
\* attempt or a response below 500, so a finished call made one wait less
\* than attempts, and the 4-second entry of RETRY_BACKOFF is never used.
C32_BackoffWaits ==
    /\ \A k \in DOMAIN send.waits :
          LET w == send.waits[k]
          IN  /\ w.after = k
              /\ w.after \in {1, 2}
              /\ Transient(WaitAfter(w))
              /\ w.wait = (IF w.after = 1 THEN 1 ELSE 2)
              /\ w.wait # 4
              /\ (send.pc = "sleeping" /\ k = Len(send.waits))
                    \/ WaitLasted(w) = w.wait
    /\ \A i \in DOMAIN send.log :
          (i = 3 \/ Below500(send.log[i].outcome))
              => \A k \in DOMAIN send.waits : send.waits[k].after # i
    /\ SendDone => Len(send.waits) = Attempts - 1

C32_Witness ==
    /\ SendDone
    /\ Attempts = 3
    /\ \A i \in 1 .. 3 : Transient(send.log[i].outcome)
    /\ send.waits = <<[after |-> 1, wait |-> 1], [after |-> 2, wait |-> 2]>>
    /\ send.log[3].at - send.log[1].at = 3

\* C33: whenever the returned string says "after 3 attempts" (the timeout
\* message and the could-not-reach message), exactly 3 attempts were made.
C33_ThreeAttemptsSaid ==
    (SendDone /\ send.outcome = "returned"
       /\ send.result \in
            {Failed(send.payload.title)
                 \o "the request timed out after 3 attempts.",
             Failed(send.payload.title)
                 \o "could not reach the delivery service after 3 attempts."})
        => Attempts = 3

\* ---------------------------------------------------------------- C38, C39
\* The content of an event as a text, where it has one: a str, or str() of
\* another value where _to_chat_chunk converts it.
HasText(ev) ==
    /\ ev.has
    /\ VTruthy(ev.content)
    /\ ev.type = "RunContentEvent" => ev.content.t = "str"

\* The chunks C38 expects for the events of a turn, in their order.
RECURSIVE ExpectedChunks(_)
ExpectedChunks(evs) ==
    IF evs = <<>> THEN <<>>
    ELSE (IF HasText(Head(evs))
             /\ _sanitize_for_tts(Head(evs).content.s) # <<>>
          THEN <<_sanitize_for_tts(Head(evs).content.s)>> ELSE <<>>)
         \o ExpectedChunks(Tail(evs))

\* C38: in a voice turn each event yields at most one chat chunk, the
\* chunks are sent in the order of their events, each chunk's text is the
\* sanitized content of its event, and an event whose sanitized content is
\* empty yields none: no chunk has an empty text.
C38_ChunkPerEvent ==
    /\ Len(voice.chunks) <= Len(voice.events)
    /\ voice.chunks = ExpectedChunks(voice.events)
    /\ \A i \in DOMAIN voice.chunks : voice.chunks[i] # <<>>

C38_Witness ==
    /\ voice.events = <<VEv("RunContentEvent", TRUE, VStr(<<"#">>)),
                        VEv("RunOutput", TRUE, VStr(<<"*", "o", "k", "*">>)),
                        VEv("RunContentEvent", TRUE, VStr(<<"h", "i">>))>>
    /\ voice.chunks = << <<"o", "k">>, <<"h", "i">> >>

\* The texts of a turn's events.
DeltaTexts(evs) == [i \in DOMAIN evs |-> evs[i].content.s]

\* C39: sanitizing per delta equals sanitizing the whole answer: when the
\* events of a turn are content deltas d1..dn, the concatenation of the
\* texts of the chunks sent for them is sanitize(d1 + ... + dn), so the
\* whitespace between words at a delta boundary is kept.
C39_PerDeltaEqualsWhole ==
    (\A i \in DOMAIN voice.events :
        /\ voice.events[i].type = "RunContentEvent"
        /\ voice.events[i].content.t = "str")
      => Concat(voice.chunks)
           = _sanitize_for_tts(Concat(DeltaTexts(voice.events)))

\* ---------------------------------------------------------------- C34..C36
\* The SendDocumentTool instances of a bound tool list: what follows the
\* search tool and the SQL tool.
SendTools(bound) == SubSeq(bound, 3, Len(bound))

\* C34: after any sequence of initialize (succeeding or failing part-way),
\* cleanup and diagnose calls on a DiagnosticsService with a webhook URL,
\* the tool list bound to the agent at every invocation holds exactly one
\* SendDocumentTool instance.
C34_OneSendDocumentTool ==
    HasSend => \A k \in Invoked : Len(SendTools(k.bound)) = 1

\* The Agent objects that have been invoked: those whose tool list holds a
\* SQL tool that was bound at an invocation.
InvokedAgents ==
    {a \in DOMAIN tools : \E i \in DOMAIN bound_log : bound_log[i] = tools[a][2]}

\* C35: the search tool is created once and reused: across any sequence of
\* chat, chat_stream, diagnose, initialize and cleanup calls on one service
\* instance, every agent invocation uses the same Agent object and the same
\* search-tool instance.
C35_SameAgentAndSearchTool ==
    \A a, b \in InvokedAgents : a = b /\ tools[a][1] = tools[b][1]

\* The records of the calls that started in the step.
Started ==
    IF nCalls' = nCalls THEN {}
    ELSE {ended'} \cup {calls'[c] : c \in {d \in Calls :
                                               /\ calls[d].pc = "new"
                                               /\ calls'[d].pc # "new"}}

\* C36: when requests call ensure_initialized concurrently on a service
\* that is not initialized, the Agent and the search tool are constructed
\* exactly once: the test of the flag and its setting are one step, so the
\* step that initializes builds one Agent and one search tool, and no step
\* of another request that finds the flag set constructs anything but its
\* own SQL tool.
C36_ConstructedOnce ==
    [][/\ initialized =>
            /\ agent' = agent
            /\ ddg_tools' = ddg_tools
            /\ DOMAIN tools' = DOMAIN tools
            /\ \A k \in Started : k.tried = 0 /\ IdsOf(k.made, "agent") = <<>>
                                  /\ IdsOf(k.made, "ddg") = <<>>
       /\ (~initialized /\ initialized') =>
            /\ agent' \notin DOMAIN tools
            /\ DOMAIN tools' = DOMAIN tools \cup {agent'}
            /\ \E k \in Started : /\ k.tried = 1
                                  /\ IdsOf(k.made, "agent") = <<agent'>>
                                  /\ IdsOf(k.made, "ddg") = <<ddg_tools'>>]_vars

\* Two requests in flight at once on a service that was not initialized:
\* the first constructed the Agent, the second found the flag set and
\* invoked the same Agent.
C36_Witness ==
    \E c, d \in Calls :
        /\ c # d
        /\ calls[c].pc \in {"running", "awaiting"}
        /\ calls[d].pc \in {"running", "awaiting"}
        /\ calls[c].tried = 1
        /\ calls[d].tried = 0
        /\ calls[c].run_agent = calls[d].run_agent
        /\ DOMAIN tools = {agent}

\* -------------------------------------------------------------------- C37
IsToolStart(f) == f.type = "tool_start"

IsToolComplete(f) == f.type = "tool_complete"

IsStarted(ev) == ev.type = "ToolCallStartedEvent"

IsCompleted(ev) == ev.type = "ToolCallCompletedEvent"

\* p is the first n characters of s (all of s when it has fewer).
FirstOf(p, s, n) ==
    /\ Len(p) = (IF Len(s) < n THEN Len(s) ELSE n)
    /\ p = SubSeq(s, 1, Len(p))

\* C37: in every tool_start frame the args field is the first 200
\* characters of the arguments' text, so at most 200 characters; in every
\* tool_complete frame result_preview is the first 500 characters of the
\* result's text, so at most 500 characters, and the empty string when the
\* tool result is empty or absent.
C37_ToolFieldsTruncated ==
    \A k \in StreamRecords :
        LET fs == SelectSeq(k.frames, IsToolStart)
            es == SelectSeq(k.events, IsStarted)
            fc == SelectSeq(k.frames, IsToolComplete)
            ec == SelectSeq(k.events, IsCompleted)
        IN  /\ Len(fs) = Len(es)
            /\ \A i \in DOMAIN fs : /\ Len(fs[i].val) <= 200
                                    /\ FirstOf(fs[i].val, es[i].val, 200)
            /\ Len(fc) = Len(ec)
            /\ \A i \in DOMAIN fc :
                  /\ Len(fc[i].val) <= 500
                  /\ IF ec[i].truthy
                     THEN FirstOf(fc[i].val, ec[i].val, 500)
                     ELSE fc[i].val = ""

\* A finished stream with arguments of 201 characters, a result of 501
\* characters and an absent result.
C37_Witness ==
    /\ ended.kind = "chat_stream"
    /\ ended.outcome = "returned"
    /\ Len(ended.events) = 3
    /\ Len(ended.events[1].val) = 201
    /\ Len(ended.events[2].val) = 501
    /\ ended.events[3] = EvOf("ToolCallCompletedEvent", "run_sql_query",
                              "None", FALSE)
    /\ Len(ended.frames) = 5
    /\ Len(ended.frames[2].val) = 200
    /\ Len(ended.frames[3].val) = 500
    /\ ended.frames[4].val = ""

\* -------------------------------------------------------------------- C31
\* C31: while one send_document call waits in its retry backoff, only that
\* call's task is suspended: another request in flight in the same process
\* can take its next step during the wait.
C31_OthersProgressDuringWait ==
    \A d \in Calls :
        (send.pc = "sleeping" /\ send.caller # d /\ calls[d].pc = "running")
            => ENABLED LoopArunReturns(d)

====
